---- MODULE Spec2Model ----
(***************************************************************************)
(* Verification model of the llm-council backend: the upstream model       *)
(* client (engine/openrouter.py), the budget gate, the council and         *)
(* pipeline runners with their run ledger, and the tool runtime.           *)
(***************************************************************************)
EXTENDS Integers, Sequences, FiniteSets, TLC

Null == "null"

\* Python None in a numeric field
None == -1

Max(a, b) == IF a >= b THEN a ELSE b

(***************************************************************************)
(* Bounds of the model.                                                    *)
(***************************************************************************)
NumCalls == 2
MaxTime == 3
AuthCooldownSeconds == 2
MaxConcurrency == 1

(***************************************************************************)
(* Program constants.                                                      *)
(***************************************************************************)
OPENROUTER_MAX_RETRIES == 2

VARIABLES
    now,               \* wall clock read by time.time()
    authInvalidUntil,  \* openrouter._AUTH_INVALID_UNTIL
    lastAuthFailAt,    \* history: time of the latest 401/403 response, -1 if none
    permits,           \* free permits of openrouter._SEMAPHORE
    call,              \* one record per query_model invocation
    bBudget,           \* budget gate alone: the budget of the runner
    bEvents,           \* budget gate alone: the UsageEvent rows of the run
    bOutcome,          \* budget gate alone: outcome of CouncilRunner._check_budget
    bOutcomeP,         \* budget gate alone: outcome of PipelineRunner._check_budget
    tool,              \* "ask" (council.ask) or "pipeline" (council.pipeline)
    budget,            \* the budget argument of the invocation
    firstMsg,          \* is_first_message: the conversation had no message
    maxIter,           \* max_iterations of the pipeline input (after the clamp)
    reqIter,           \* max_iterations as the pipeline request gave it
    runtime,           \* the tool runtime the invocation came through: "mcp" or "http"
    faultCap,          \* how many upstream attempts of the invocation may go wrong
    judges,            \* CouncilRunner._judge_models of the invocation
    cause,             \* what ended the invocation inside the runtime, "none" so far
    apiKey,               \* what resolve_mcp_api_key is looking at (NoKey otherwise)
    lookup,            \* what the conversation lookup is looking at (NoLookup otherwise)
    rpc,               \* call_tool_with_guards: "idle", "running", "returned"
    hpc,               \* position of the handler coroutine
    idx,               \* loop index of the handler (sequential fan-out, gate iteration)
    tasks,             \* the logical calls in progress (_one, _judge, _call_json_role)
    dbLock,            \* PipelineRunner._db_lock: holder task, 0 when free
    s1,                \* stage1_results: models with content, in result order
    s2,                \* stage2_results: [model, valid]
    errors,            \* errors list of the handler
    degraded,          \* degraded flag of the handler
    pl,                \* locals of PipelineRunner.run
    run,               \* the Run row as the session sees it
    runC,              \* the Run row as committed
    endCount,          \* history: number of end_run calls that found the row
    usage,             \* UsageEvent rows of the run in the session
    steps,             \* RunStep rows of the run in the session
    cache,             \* CacheEntry keys in the session
    cacheC,            \* CacheEntry keys committed
    msgs,              \* messages of the conversation in the session
    msgsC,             \* messages of the conversation committed
    runInfoSet,        \* run_info["run_id"] is populated
    ret,               \* the envelope returned by the runtime
    calls,             \* history: every upstream attempt issued (query_model entered)
    usageLog,          \* history: every record_usage_event call
    cacheWrites,       \* history: every CacheService.set_json call
    nextCallId,        \* uuid.uuid4() of call_id: a fresh value per draw
    launches,          \* history: number of logical calls started
    budgetFailedAt,    \* history: Len(calls) when a budget check raised, else -1
    cfgLimit,          \* config.MCP_MAX_CONCURRENT_CALLS / HTTP_MAX_CONCURRENT_TOOL_CALLS
    sem,               \* per runtime: the module semaphore, its limit and the permits
    inv,               \* tool invocations: position and the semaphore they obtained
    limitChanges,      \* history: changes of the effective limit, per runtime
    fnIn,              \* the arguments a function of the engine is called with
    fnOut,             \* what it returned, << >> before the call
    utcnow,            \* cache service alone: datetime.utcnow()
    cacheRows,         \* cache service alone: the CacheEntry row of each key
    lastSet,           \* history: the row the latest set_json of each key wrote
    lastOp             \* history: the latest CacheService call and what it returned

clientVars == <<now, authInvalidUntil, lastAuthFailAt, permits, call>>

budgetVars == <<bBudget, bEvents, bOutcome, bOutcomeP>>

runVars ==
    <<tool, budget, firstMsg, reqIter, maxIter, runtime, faultCap, judges, cause, apiKey, lookup, rpc, hpc, idx, tasks, dbLock, s1, s2, errors,
      degraded, pl, run, runC, endCount, usage, steps, cache, cacheC, msgs, msgsC,
      runInfoSet, ret, calls, usageLog, cacheWrites, nextCallId, launches,
      budgetFailedAt>>

guardVars == <<cfgLimit, sem, inv, limitChanges>>

cacheSvcVars == <<utcnow, cacheRows, lastSet, lastOp>>

pureVars == <<fnIn, fnOut, cacheSvcVars>>

vars == <<clientVars, budgetVars, runVars, guardVars, pureVars>>

(***************************************************************************)
(* engine/openrouter.py                                                    *)
(***************************************************************************)
CallIds == 1..NumCalls

\* status_code None of OpenRouterResult: the attempt raised, no HTTP status
NoStatus == 0

\* Outcomes of one client.post: an HTTP status, or NoStatus when the attempt
\* raised (client.post or the decoding of the response body).
StatusCodes == {200, 401, 403, 404, 429, 500}
Outcomes == StatusCodes \cup {NoStatus}

_should_retry(status_code) ==
    \/ status_code = NoStatus
    \/ status_code = 429
    \/ (status_code >= 500 /\ status_code <= 599)

SemaphoreSizeDoubled == 2 * Max(1, MaxConcurrency)

\* asyncio.Semaphore(max(1, OPENROUTER_MAX_CONCURRENCY))
SemaphoreSize == Max(1, MaxConcurrency)

NoResult == [ok |-> FALSE, status_code |-> NoStatus, error |-> "none"]

IdleCall ==
    [pc |-> "idle", http_attempt |-> 0, requests |-> 0, last |-> NoStatus,
     window |-> "none", held |-> FALSE, posted_in_cooldown |-> FALSE, result |-> NoResult]

(***************************************************************************)
(* One tool invocation: call_tool_with_guards, the council.ask and         *)
(* council.pipeline handlers, CouncilRunner and PipelineRunner.            *)
(***************************************************************************)
NumCouncil == 2
NumJudges == 1
MaxRunCap == 2
MaxIterations == 2
MaxRequested == 5
MaxFaults == 1

CouncilModelNames == <<"m1", "m2", "m3">>
JudgeModelNames == <<"j1", "j2">>
council_models == SubSeq(CouncilModelNames, 1, NumCouncil)
judge_models == SubSeq(JudgeModelNames, 1, NumJudges)
chairman_model == "c1"
TitleModel == "google/gemini-2.5-flash"

TaskIds == 1..Max(2, Max(NumCouncil, NumJudges))

NoRun == [exists |-> FALSE, status |-> "none", ended_at |-> -1, latency_ms |-> -1]

NoRet ==
    [by |-> "none", errors |-> << >>, degraded |-> FALSE, final_answer |-> "", gate_verdict |-> "",
     final_codex_prompt |-> None]

FreeTask ==
    [pc |-> "free", site |-> "", model |-> "", call_id |-> 0, lc |-> 0, attempt |-> 0,
     ci |-> 0, res |-> "", data |-> 0, out |-> ""]

NoPl ==
    [agents |-> {}, tests |-> FALSE, paths |-> FALSE, reviewer |-> "", security |-> "",
     test_writer |-> "", implementer |-> "", gate |-> "", verdict |-> "", prompt |-> None, impl |-> None, answer |-> "",
     errors |-> << >>, degraded |-> FALSE, must_fix |-> {}]

MaxMonthlyCap == 2
MaxUsed == 2
NumKeys == 2
Keys == 1..NumKeys

NoKey ==
    [presented |-> FALSE, given |-> FALSE, active |-> FALSE, allow_no_auth |-> FALSE,
     monthly_token_cap |-> None, used |-> 0]

NoLookup ==
    [presented |-> FALSE, account_id |-> [k \in Keys |-> None], caller |-> None,
     conversation |-> "absent", owner |-> None]

RunParked ==
    /\ tool = "ask"
    /\ runtime = "mcp"
    /\ cause = "none"
    /\ apiKey = NoKey
    /\ lookup = NoLookup
    /\ budget = [present |-> FALSE, max_total_tokens |-> -1, max_total_cost_usd |-> -1]
    /\ firstMsg = FALSE
    /\ reqIter = 1
    /\ maxIter = 1
    /\ faultCap = 0
    /\ judges = << >>
    /\ rpc = "idle"
    /\ hpc = "none"
    /\ idx = 0
    /\ tasks = [t \in TaskIds |-> FreeTask]
    /\ dbLock = 0
    /\ s1 = << >>
    /\ s2 = << >>
    /\ errors = << >>
    /\ degraded = FALSE
    /\ pl = NoPl
    /\ run = NoRun
    /\ runC = NoRun
    /\ endCount = 0
    /\ usage = << >>
    /\ steps = << >>
    /\ cache = {}
    /\ cacheC = {}
    /\ msgs = 0
    /\ msgsC = 0
    /\ runInfoSet = FALSE
    /\ ret = NoRet
    /\ calls = << >>
    /\ usageLog = << >>
    /\ cacheWrites = << >>
    /\ nextCallId = 1
    /\ launches = 0
    /\ budgetFailedAt = -1

BudgetParked ==
    /\ bBudget = [present |-> FALSE, max_total_tokens |-> -1, max_total_cost_usd |-> -1]
    /\ bEvents = << >>
    /\ bOutcome = "unchecked"
    /\ bOutcomeP = "unchecked"

\* the tool runtimes of the process: call_tool_with_guards (MCP) and
\* call_http_tool_with_guards (HTTP)
Runtimes == {"mcp", "http"}

NumInvocations == 2
MaxLimit == 1
MaxLimitChanges == 1

InvIds == 1..NumInvocations

\* _MCP_SEMAPHORE is None, _MCP_SEMAPHORE_LIMIT is None
NoSemaphore == [gen |-> 0, limit |-> None, free |-> << >>]

IdleInvocation == [pc |-> "idle", rt |-> "mcp", gen |-> 0, blocked |-> FALSE]

GuardParked ==
    /\ cfgLimit = [rt \in Runtimes |-> 1]
    /\ sem = [rt \in Runtimes |-> NoSemaphore]
    /\ inv = [i \in InvIds |-> IdleInvocation]
    /\ limitChanges = [rt \in Runtimes |-> 0]

CacheSvcParked ==
    /\ utcnow = 0
    /\ cacheRows = << >>
    /\ lastSet = << >>
    /\ lastOp = << >>

PureParked ==
    /\ fnIn = << >>
    /\ fnOut = << >>
    /\ CacheSvcParked

ClientOnly == UNCHANGED <<budgetVars, runVars, guardVars, pureVars>>

ClientInit ==
    /\ BudgetParked
    /\ RunParked
    /\ GuardParked
    /\ PureParked
    /\ now = 0
    /\ authInvalidUntil = 0
    /\ lastAuthFailAt = -1
    /\ permits = SemaphoreSize
    /\ call = [c \in CallIds |-> IdleCall]

\* time passes
Tick ==
    /\ now < MaxTime
    /\ now' = now + 1
    /\ UNCHANGED <<authInvalidUntil, lastAuthFailAt, permits, call>>
    /\ ClientOnly

CooldownActiveEarly(t) == t + 1 < authInvalidUntil

CooldownActive(t) == t < authInvalidUntil

\* query_model entry: the cooldown test, before the semaphore
Enter(c) ==
    /\ call[c].pc = "idle"
    /\ LET win == IF lastAuthFailAt < 0 THEN "none"
                  ELSE IF now < lastAuthFailAt + Max(1, AuthCooldownSeconds) THEN "in"
                  ELSE "after"
       IN IF CooldownActive(now)
          THEN call' = [call EXCEPT ![c] =
                   [@ EXCEPT !.pc = "done", !.window = win,
                             !.result = [ok |-> FALSE, status_code |-> 401, error |-> "cooldown"]]]
          ELSE call' = [call EXCEPT ![c] = [@ EXCEPT !.pc = "wait", !.window = win]]
    /\ UNCHANGED <<now, authInvalidUntil, lastAuthFailAt, permits>>
    /\ ClientOnly

AcquireUnlessCooldown(c) ==
    /\ call[c].pc = "wait"
    /\ permits > 0
    /\ IF CooldownActive(now)
       THEN /\ UNCHANGED permits
            /\ call' = [call EXCEPT ![c] =
                   [@ EXCEPT !.pc = "done",
                             !.result = [ok |-> FALSE, status_code |-> 401, error |-> "cooldown"]]]
       ELSE /\ permits' = permits - 1
            /\ call' = [call EXCEPT ![c] =
                   [@ EXCEPT !.pc = "inflight", !.held = TRUE, !.http_attempt = 0,
                             !.requests = 1, !.posted_in_cooldown = CooldownActive(now)]]
    /\ UNCHANGED <<now, authInvalidUntil, lastAuthFailAt>>
    /\ ClientOnly

\* async with _SEMAPHORE, then the first client.post is issued
Acquire(c) ==
    /\ call[c].pc = "wait"
    /\ permits > 0
    /\ permits' = permits - 1
    /\ call' = [call EXCEPT ![c] =
           [@ EXCEPT !.pc = "inflight", !.held = TRUE, !.http_attempt = 0, !.requests = 1,
                     !.posted_in_cooldown = CooldownActive(now)]]
    /\ UNCHANGED <<now, authInvalidUntil, lastAuthFailAt>>
    /\ ClientOnly

RetryAllowedLax(http_attempt, o) ==
    http_attempt <= OPENROUTER_MAX_RETRIES /\ _should_retry(o)

\* lines 145 and 184: a further attempt after this outcome?
RetryAllowed(http_attempt, o) ==
    /\ http_attempt < OPENROUTER_MAX_RETRIES
    /\ (o = NoStatus \/ _should_retry(o))

\* the response of the request in flight arrives (or the attempt raises)
Respond(c, o) ==
    /\ call[c].pc = "inflight"
    /\ IF o \in {401, 403}
       THEN /\ authInvalidUntil' = now + Max(1, AuthCooldownSeconds)
            /\ lastAuthFailAt' = now
            /\ permits' = permits + 1
            /\ call' = [call EXCEPT ![c] =
                   [@ EXCEPT !.pc = "done", !.last = o,
                             !.result = [ok |-> FALSE, status_code |-> o, error |-> "auth"]]]
       ELSE IF o = NoStatus \/ o >= 400
       THEN /\ UNCHANGED <<authInvalidUntil, lastAuthFailAt>>
            /\ IF RetryAllowed(call[c].http_attempt, o)
               THEN /\ call' = [call EXCEPT ![c] = [@ EXCEPT !.pc = "sleep", !.last = o]]
                    /\ UNCHANGED permits
               ELSE /\ permits' = permits + 1
                    /\ call' = [call EXCEPT ![c] =
                           [@ EXCEPT !.pc = "done", !.last = o,
                                     !.result = [ok |-> FALSE,
                                                 status_code |-> o,
                                                 error |-> IF o = NoStatus THEN "exception" ELSE "http"]]]
       ELSE /\ UNCHANGED <<authInvalidUntil, lastAuthFailAt>>
            /\ permits' = permits + 1
            /\ call' = [call EXCEPT ![c] =
                   [@ EXCEPT !.pc = "done", !.last = o,
                             !.result = [ok |-> TRUE, status_code |-> o, error |-> "none"]]]
    /\ UNCHANGED now
    /\ ClientOnly

\* the backoff sleep ends: `continue`, the next client.post is issued
Wake(c) ==
    /\ call[c].pc = "sleep"
    /\ call' = [call EXCEPT ![c] =
           [@ EXCEPT !.pc = "inflight", !.http_attempt = @ + 1, !.requests = @ + 1,
                     !.posted_in_cooldown = CooldownActive(now)]]
    /\ UNCHANGED <<now, authInvalidUntil, lastAuthFailAt, permits>>
    /\ ClientOnly

\* the caller has its result; the slot stands for the next query_model call
NewCall(c) ==
    /\ call[c].pc = "done"
    /\ call' = [call EXCEPT ![c] = IdleCall]
    /\ UNCHANGED <<now, authInvalidUntil, lastAuthFailAt, permits>>
    /\ ClientOnly

ClientNext ==
    \/ Tick
    \/ \E c \in CallIds : NewCall(c)
    \/ \E c \in CallIds : Enter(c)
    \/ \E c \in CallIds : Acquire(c)
    \/ \E c \in CallIds, o \in Outcomes : Respond(c, o)
    \/ \E c \in CallIds : Wake(c)

SpecClient == ClientInit /\ [][ClientNext]_vars

TerminalStatus(o) == o # NoStatus /\ o >= 400 /\ o <= 499 /\ o # 429

\* C9: once a call has received a 401 or 403, every call that enters
\* query_model before the cooldown deadline (the time of that response plus
\* the cooldown) returns ok=false with status_code 401, never holds a permit
\* and issues no HTTP request; a call that enters at or after the deadline is
\* not short-circuited and reaches the network.
C9_CooldownShortCircuits ==
    \A c \in CallIds :
        /\ call[c].window = "in" =>
               /\ call[c].pc = "done"
               /\ call[c].result = [ok |-> FALSE, status_code |-> 401, error |-> "cooldown"]
               /\ call[c].requests = 0
               /\ ~call[c].held
        /\ call[c].window = "after" =>
               /\ call[c].result.error # "cooldown"
               /\ call[c].pc \in {"wait", "inflight", "sleep", "done"}
               /\ (call[c].pc = "done" => call[c].held /\ call[c].requests >= 1)

C9_Witness ==
    \E c, d \in CallIds :
        /\ call[c].window = "in" /\ call[c].pc = "done"
        /\ call[d].window = "after" /\ call[d].pc = "inflight"

\* C10: a further HTTP attempt follows only a 429, a 5xx or an exception of
\* the previous attempt, and only while fewer than OPENROUTER_MAX_RETRIES
\* retries were made; a 401/403 or another 4xx ends the call at once; a call
\* makes at most OPENROUTER_MAX_RETRIES+1 requests and a finished call has a
\* result, with ok=false whenever its last attempt was not a success.
C10_RetryPolicy ==
    \A c \in CallIds :
        /\ call[c].requests <= OPENROUTER_MAX_RETRIES + 1
        /\ call[c].pc = "sleep" =>
               /\ call[c].last \in {NoStatus, 429} \cup {s \in StatusCodes : s >= 500 /\ s <= 599}
               /\ call[c].http_attempt < OPENROUTER_MAX_RETRIES
        /\ call[c].pc \in {"inflight", "sleep"} => call[c].requests = call[c].http_attempt + 1
        /\ (call[c].requests >= 1 /\ TerminalStatus(call[c].last)) =>
               call[c].pc = "done" /\ ~call[c].result.ok
        /\ call[c].pc = "done" =>
               /\ call[c].result.error # "none" \/ call[c].result.ok
               /\ call[c].result.ok <=> (call[c].requests >= 1 /\ call[c].last \in {s \in StatusCodes : s < 400})

C10_Witness ==
    \E c \in CallIds :
        /\ call[c].pc = "done"
        /\ call[c].requests = OPENROUTER_MAX_RETRIES + 1
        /\ call[c].last = 500
        /\ ~call[c].result.ok

\* asyncio wakes the waiters of the semaphore in arrival order; some request
\* in flight ends by a response or the client timeout, some backoff sleep ends
ClientFairness ==
    /\ \A c \in CallIds : SF_vars(Acquire(c))
    /\ WF_vars(\E c \in CallIds, o \in Outcomes : Respond(c, o))
    /\ WF_vars(\E c \in CallIds : Wake(c))

\* the calls made within one reading of the clock
SemaphoreNext ==
    \/ \E c \in CallIds : NewCall(c)
    \/ \E c \in CallIds : Enter(c)
    \/ \E c \in CallIds : Acquire(c)
    \/ \E c \in CallIds, o \in Outcomes : Respond(c, o)
    \/ \E c \in CallIds : Wake(c)

SpecSemaphore == ClientInit /\ [][SemaphoreNext]_vars /\ ClientFairness

InFlight == {c \in CallIds : call[c].pc = "inflight"}
Holders == {c \in CallIds : call[c].pc \in {"inflight", "sleep"}}

\* C11: the HTTP requests in flight, over all calls and their retry attempts,
\* never exceed max(1, OPENROUTER_MAX_CONCURRENCY); a call waiting for a permit
\* gets one after a holder has returned its permit.
C11_ConcurrencyBound ==
    /\ [](/\ Cardinality(InFlight) <= Max(1, MaxConcurrency)
          /\ Cardinality(Holders) + permits = SemaphoreSize
          /\ permits >= 0)
    /\ \A c \in CallIds : (call[c].pc = "wait") ~> (call[c].pc = "inflight")

C11_Witness ==
    \E c, d \in CallIds :
        /\ call[c].pc = "inflight"
        /\ call[c].http_attempt > 0
        /\ call[d].pc = "wait"
        /\ permits = 0

(***************************************************************************)
(* Budget gate: _usage_totals and _check_budget of both runners.           *)
(* None (-1) is Python's None in a numeric field; costs are integers in    *)
(* units of 1e-8 USD, the precision _estimate_cost rounds to.              *)
(***************************************************************************)
MaxEvents == 3
MaxTok == 2
MaxCost == 1
MaxCap == 2

RECURSIVE SumTokens(_)
SumTokens(events) ==
    IF events = << >> THEN 0
    ELSE (IF Head(events).total_tokens = None THEN 0 ELSE Head(events).total_tokens)
         + SumTokens(Tail(events))

RECURSIVE SumCost(_)
SumCost(events) ==
    IF events = << >> THEN 0
    ELSE (IF Head(events).cost_estimated = None THEN 0 ELSE Head(events).cost_estimated)
         + SumCost(Tail(events))

\* (total_tokens, total_cost, tokens_missing, cost_missing)
_usage_totals(events) ==
    LET token_values == SelectSeq(events, LAMBDA e : e.total_tokens # None)
        cost_values == SelectSeq(events, LAMBDA e : e.cost_estimated # None)
    IN [total_tokens |-> IF token_values # << >> THEN SumTokens(token_values) ELSE None,
        total_cost |-> IF cost_values # << >> THEN SumCost(cost_values) ELSE None,
        tokens_missing |-> \E i \in 1..Len(events) : events[i].total_tokens = None,
        cost_missing |-> \E i \in 1..Len(events) : events[i].cost_estimated = None]

NoBudget == [present |-> FALSE, max_total_tokens |-> None, max_total_cost_usd |-> None]

Budgets ==
    {NoBudget} \cup
    [present : {TRUE}, max_total_tokens : {None} \cup 0..MaxCap,
     max_total_cost_usd : {None} \cup 0..MaxCap]

_check_budget_ge(b, events) ==
    IF ~b.present THEN "ok"
    ELSE LET t == _usage_totals(events)
         IN IF b.max_total_tokens # None /\ (t.tokens_missing \/ t.total_tokens = None)
            THEN "token_usage_missing"
            ELSE IF b.max_total_tokens # None /\ t.total_tokens >= b.max_total_tokens
            THEN "max_total_tokens"
            ELSE IF b.max_total_cost_usd # None /\ (t.cost_missing \/ t.total_cost = None)
            THEN "cost_estimate_missing"
            ELSE IF b.max_total_cost_usd # None /\ t.total_cost >= b.max_total_cost_usd
            THEN "max_total_cost_usd"
            ELSE "ok"

\* CouncilRunner._check_budget: "ok" or the message of CouncilBudgetExceeded
_check_budget(b, events) ==
    IF ~b.present THEN "ok"
    ELSE LET t == _usage_totals(events)
         IN IF b.max_total_tokens # None /\ (t.tokens_missing \/ t.total_tokens = None)
            THEN "token_usage_missing"
            ELSE IF b.max_total_tokens # None /\ t.total_tokens > b.max_total_tokens
            THEN "max_total_tokens"
            ELSE IF b.max_total_cost_usd # None /\ (t.cost_missing \/ t.total_cost = None)
            THEN "cost_estimate_missing"
            ELSE IF b.max_total_cost_usd # None /\ t.total_cost > b.max_total_cost_usd
            THEN "max_total_cost_usd"
            ELSE "ok"

\* PipelineRunner._check_budget: "ok" or the message of BudgetExceeded
PipelineCheckBudget(b, events) ==
    IF ~b.present THEN "ok"
    ELSE LET t == _usage_totals(events)
         IN IF b.max_total_tokens # None /\ (t.tokens_missing \/ t.total_tokens = None)
            THEN "token_usage_missing"
            ELSE IF b.max_total_tokens # None /\ t.total_tokens > b.max_total_tokens
            THEN "max_total_tokens"
            ELSE IF b.max_total_cost_usd # None /\ (t.cost_missing \/ t.total_cost = None)
            THEN "cost_estimate_missing"
            ELSE IF b.max_total_cost_usd # None /\ t.total_cost > b.max_total_cost_usd
            THEN "max_total_cost_usd"
            ELSE "ok"

ClientParked ==
    /\ now = 0
    /\ authInvalidUntil = 0
    /\ lastAuthFailAt = -1
    /\ permits = SemaphoreSize
    /\ call = [c \in CallIds |-> IdleCall]

BudgetInit ==
    /\ ClientParked
    /\ RunParked
    /\ GuardParked
    /\ PureParked
    /\ bBudget \in Budgets
    /\ bEvents = << >>
    /\ bOutcome = "unchecked"
    /\ bOutcomeP = "unchecked"

\* record_usage_event followed by the budget check of the runner; a failed
\* check raises and the run records nothing more
RecordAndCheck(tok, cost) ==
    /\ Len(bEvents) < MaxEvents
    /\ bOutcome \in {"unchecked", "ok"}
    /\ bEvents' = Append(bEvents, [total_tokens |-> tok, cost_estimated |-> cost])
    /\ bOutcome' = _check_budget(bBudget, bEvents')
    /\ bOutcomeP' = PipelineCheckBudget(bBudget, bEvents')
    /\ UNCHANGED bBudget
    /\ UNCHANGED <<clientVars, runVars, guardVars, pureVars>>

BudgetNext ==
    \E tok \in {None} \cup 0..MaxTok, cost \in {None} \cup 0..MaxCost : RecordAndCheck(tok, cost)

SpecBudget == BudgetInit /\ [][BudgetNext]_vars

AnyTokensNull == \E i \in 1..Len(bEvents) : bEvents[i].total_tokens = None
AnyCostNull == \E i \in 1..Len(bEvents) : bEvents[i].cost_estimated = None
TokenCapSet == bBudget.present /\ bBudget.max_total_tokens # None
CostCapSet == bBudget.present /\ bBudget.max_total_cost_usd # None
TokenRuleFails == TokenCapSet /\ (AnyTokensNull \/ SumTokens(bEvents) > bBudget.max_total_tokens)
CostRuleFails == CostCapSet /\ (AnyCostNull \/ SumCost(bEvents) > bBudget.max_total_cost_usd)

\* C5: the budget check over the usage events of a run, in both runners.
\* With max_total_tokens set it fails with token_usage_missing exactly when
\* some event has null total_tokens, and otherwise with max_total_tokens
\* exactly when the token sum is strictly greater than the cap (equal passes).
\* The same rule holds for max_total_cost_usd (cost_estimate_missing, cost
\* sum), which is evaluated when the token rule has not failed.  The check
\* fails exactly when one of the two rules fails, never when no cap is set.
C5_BudgetRule ==
    bOutcome # "unchecked" =>
        /\ bOutcomeP = bOutcome
        /\ TokenCapSet => (bOutcome = "token_usage_missing" <=> AnyTokensNull)
        /\ (TokenCapSet /\ ~AnyTokensNull) =>
               (bOutcome = "max_total_tokens" <=> SumTokens(bEvents) > bBudget.max_total_tokens)
        /\ ~TokenCapSet => bOutcome \notin {"token_usage_missing", "max_total_tokens"}
        /\ (CostCapSet /\ ~TokenRuleFails) => (bOutcome = "cost_estimate_missing" <=> AnyCostNull)
        /\ (CostCapSet /\ ~TokenRuleFails /\ ~AnyCostNull) =>
               (bOutcome = "max_total_cost_usd" <=> SumCost(bEvents) > bBudget.max_total_cost_usd)
        /\ ~CostCapSet => bOutcome \notin {"cost_estimate_missing", "max_total_cost_usd"}
        /\ (bOutcome # "ok") <=> (TokenRuleFails \/ CostRuleFails)
        /\ (~TokenCapSet /\ ~CostCapSet) => bOutcome = "ok"

\* a token sum equal to the cap has passed and the next event exceeded a cost cap
C5_Witness ==
    /\ Len(bEvents) >= 2
    /\ TokenCapSet /\ CostCapSet
    /\ SumTokens(bEvents) = bBudget.max_total_tokens
    /\ SumTokens(bEvents) > 0
    /\ bOutcome = "max_total_cost_usd"

(***************************************************************************)
(* The run ledger and the cache as the session sees them.                  *)
(***************************************************************************)
CallTokens == 1

RunBudgets ==
    {NoBudget, [present |-> TRUE, max_total_tokens |-> None, max_total_cost_usd |-> None],
     [present |-> TRUE, max_total_tokens |-> None, max_total_cost_usd |-> 1]}
    \cup {[present |-> TRUE, max_total_tokens |-> c, max_total_cost_usd |-> None] : c \in 1..MaxRunCap}

Err(kind, what) == <<kind, what>>

Stage1Key(m) == [stage |-> "stage1", model |-> m, prompt |-> << >>]
Stage2Key(m, prompt) == [stage |-> "stage2", model |-> m, prompt |-> prompt]

\* RunService.create_run
create_run == [exists |-> TRUE, status |-> "running", ended_at |-> None, latency_ms |-> None]

\* RunService.end_run: the row after the call; stamp stands for utcnow() and
\* the elapsed latency of this call
end_run(r, status, stamp) ==
    IF ~r.exists THEN r
    ELSE [r EXCEPT !.status = status, !.ended_at = stamp, !.latency_ms = stamp]

\* UsageService.record_usage_event: the row added for one attempt; without a
\* price for the model (MODEL_PRICING is empty) _estimate_cost returns None
UsageEventOf(model, call_id, attempt, res) ==
    [call_id |-> call_id, attempt |-> attempt, model |-> model,
     total_tokens |-> IF res = "fail" THEN None ELSE CallTokens,
     cost_estimated |-> None,
     usage_missing |-> (res = "fail")]

RunStepOfFirst(role, model, attempt, is_retry, cache_hit) ==
    [role |-> role, model |-> model, attempt |-> 0, is_retry |-> FALSE,
     cache_hit |-> cache_hit]

\* RunService.add_run_step
RunStepOf(role, model, attempt, is_retry, cache_hit) ==
    [role |-> role, model |-> model, attempt |-> attempt, is_retry |-> is_retry,
     cache_hit |-> cache_hit]

RunsSequentiallyNever(b) == FALSE

\* `if self._budget is not None` of stage1 and stage2, `self._budget is None`
\* of the reviewer/security gather
RunsSequentially(b) == b.present

NewTask(site, model, lc) ==
    [pc |-> "start", site |-> site, model |-> model, call_id |-> 0, lc |-> lc, attempt |-> 0,
     ci |-> 0, res |-> "", data |-> 0, out |-> ""]

CallEntry(t, call_id, attempt) ==
    [lc |-> t.lc, call_id |-> call_id, attempt |-> attempt, model |-> t.model, site |-> t.site,
     returned |-> FALSE, verr |-> FALSE, checked |-> FALSE, fault |-> FALSE]

CouncilSites == {"title", "stage1", "stage2", "stage3"}
PipelineSites == {"leader", "reviewer", "security", "test_writer", "implementer", "gate"}

PlainResults == {"ok", "nocontent", "fail"}
JudgeResults == {"valid", "emptyrank", "invalid", "nocontent", "fail"}

ResultsFor(site) ==
    IF site = "stage2" THEN JudgeResults ELSE PlainResults

\* the upstream results that are not the plain success of the call
Faulty(res) == res \notin {"ok", "valid"}

Faults == Cardinality({k \in 1..Len(calls) : calls[k].fault})

\* the results the upstream may still give
Admitted(res) == ~Faulty(res) \/ Faults < faultCap

ActiveTasks == {t \in TaskIds : tasks[t].pc # "free"}
AllDone == ActiveTasks # {} /\ \A t \in ActiveTasks : tasks[t].pc = "done"
FreeAll == [t \in TaskIds |-> FreeTask]

RunOnly == UNCHANGED <<clientVars, budgetVars, guardVars, pureVars>>

requestVars == <<tool, budget, firstMsg, reqIter, maxIter, runtime, faultCap, judges>>
inputVars == <<requestVars, cause, apiKey, lookup>>
dbVars == <<run, runC, endCount, usage, steps, cache, cacheC, msgs, msgsC>>
histVars == <<calls, usageLog, cacheWrites, nextCallId, launches, budgetFailedAt>>
handlerVars == <<rpc, hpc, idx, s1, s2, errors, degraded, pl, runInfoSet, ret>>

HardMaxIterations == 4
DefaultIterations == 2

_clamp_low_only(v) ==
    IF v < 1 THEN 1 ELSE v

\* CouncilPipelineInput._clamp_max_iterations (and the HTTP input's)
_clamp_max_iterations(v) ==
    IF v < 1 THEN 1 ELSE IF v > HardMaxIterations THEN HardMaxIterations ELSE v

\* the state of an invocation that has not entered the runtime yet
RunFresh ==
    /\ cause = "none"
    /\ apiKey = NoKey
    /\ lookup = NoLookup
    /\ rpc = "idle"
    /\ hpc = "none"
    /\ idx = 0
    /\ tasks = FreeAll
    /\ dbLock = 0
    /\ s1 = << >>
    /\ s2 = << >>
    /\ errors = << >>
    /\ degraded = FALSE
    /\ pl = NoPl
    /\ run = NoRun
    /\ runC = NoRun
    /\ endCount = 0
    /\ usage = << >>
    /\ steps = << >>
    /\ cache = cacheC
    /\ msgs = 0
    /\ msgsC = 0
    /\ runInfoSet = FALSE
    /\ ret = NoRet
    /\ calls = << >>
    /\ usageLog = << >>
    /\ cacheWrites = << >>
    /\ nextCallId = 1
    /\ launches = 0
    /\ budgetFailedAt = -1

\* every request through the MCP runtime, and through the HTTP runtime the
\* requests without a budget on an empty cache
RunInit ==
    /\ ClientParked
    /\ BudgetParked
    /\ GuardParked
    /\ PureParked
    /\ runtime \in Runtimes
    /\ tool \in (IF runtime = "mcp" THEN {"ask", "pipeline", "test_double"}
                                   ELSE {"ask", "pipeline"})
    /\ budget \in (IF tool = "test_double" \/ runtime = "http" THEN {NoBudget}
                                                               ELSE RunBudgets)
    /\ firstMsg \in (IF tool = "ask" /\ runtime = "mcp" THEN BOOLEAN ELSE {FALSE})
    /\ reqIter \in (IF tool = "pipeline" /\ runtime = "mcp" THEN 1..MaxIterations ELSE {1})
    /\ maxIter = _clamp_max_iterations(reqIter)
    /\ faultCap = MaxFaults
    /\ judges = judge_models
    /\ cacheC \in (IF runtime = "mcp" THEN {{}, {Stage1Key(council_models[1])}} ELSE {{}})
    /\ RunFresh

(***************************************************************************)
(* mcp/runtime.py call_tool_with_guards and mcp/tools.py dispatch          *)
(***************************************************************************)
\* async with _get_semaphore(): wait_for(dispatch_tool(...)): the handler starts
RuntimeStart ==
    /\ rpc = "idle"
    /\ rpc' = "running"
    /\ hpc' = "init"
    /\ UNCHANGED <<idx, s1, s2, errors, degraded, pl, runInfoSet, ret>>
    /\ UNCHANGED <<inputVars, tasks, dbLock, dbVars, histVars>>
    /\ RunOnly

_error_output(errs) ==
    [by |-> "runtime", errors |-> errs, degraded |-> TRUE, final_answer |-> "",
     gate_verdict |-> IF tool = "pipeline" THEN "FAIL" ELSE "", final_codex_prompt |-> None]

\* the reason each except branch of the two runtimes puts in the envelope
ReasonOf(rt, c) ==
    IF c = "exception" THEN (IF rt = "mcp" THEN "internal_error" ELSE "error") ELSE c

ValidationCauses == {"invalid_input", "input_too_large"}

RollbackKeeps(committed, flushed) == flushed

\* await session.rollback(): what the session shows afterwards
Rollback(committed, flushed) == committed

\* except TimeoutError / CancelledError / ValidationError / Exception of
\* call_tool_with_guards and call_http_tool_with_guards: rollback, then (not in
\* the ValidationError branch) _mark_run_failed and commit when run_info has
\* the run id
Cleanup(c) ==
    /\ usage' = Rollback(<< >>, usage)
    /\ steps' = Rollback(<< >>, steps)
    /\ cache' = Rollback(cacheC, cache)
    /\ msgs' = Rollback(msgsC, msgs)
    /\ UNCHANGED <<cacheC, msgsC>>
    /\ IF runInfoSet /\ c \notin ValidationCauses
       THEN /\ run' = end_run(Rollback(runC, run), "failed", endCount + 1)
            /\ runC' = run'
            /\ endCount' = IF runC.exists THEN endCount + 1 ELSE endCount
       ELSE /\ run' = Rollback(runC, run)
            /\ UNCHANGED <<runC, endCount>>
    /\ ret' = _error_output(<<Err(ReasonOf(runtime, c), "")>>)
    /\ cause' = c
    /\ rpc' = "returned"
    /\ hpc' = "stopped"
    /\ tasks' = FreeAll
    /\ dbLock' = 0
    /\ UNCHANGED <<idx, s1, s2, errors, degraded, pl, runInfoSet>>
    /\ UNCHANGED <<requestVars, apiKey, lookup, histVars>>
    /\ RunOnly

HandlerRunning == rpc = "running" /\ hpc \notin {"none", "returned", "stopped"}

\* asyncio.wait_for times out, or the invocation is cancelled, at any await
Timeout(reason) ==
    /\ HandlerRunning
    /\ Cleanup(reason)

\* an exception leaves the handler before its try block (the query for the
\* key, the conversation lookup, create_run, commit),
\* or leaves the dispatch of tests/test_mcp_ops_hardening.py
EscapingException ==
    /\ rpc = "running"
    /\ hpc \in {"auth", "lookup", "create", "sleep"}
    /\ Cleanup("exception")

\* CouncilAskInput.model_validate / CouncilPipelineInput.model_validate of the
\* MCP handlers raises ValidationError; the HTTP routes validate the body
\* before the runtime is entered
ValidationFailure(c) ==
    /\ rpc = "running"
    /\ hpc = "init"
    /\ runtime = "mcp"
    /\ tool # "test_double"
    /\ Cleanup(c)

(***************************************************************************)
(* tools/handlers.py council_ask                                           *)
(***************************************************************************)
\* runner.start_run(...) then `await session.commit()`
\* the result of a handler that returns before it creates a run
_empty_output(errs) ==
    [by |-> "handler", errors |-> errs, degraded |-> TRUE, final_answer |-> "",
     gate_verdict |-> IF tool = "pipeline" THEN "FAIL" ELSE "", final_codex_prompt |-> None]

\* return of such a result through the runtime; run_info gets the run_id of
\* the result when the shared handler produced it
Refuse(errs, fills_run_info) ==
    /\ ret' = _empty_output(errs)
    /\ runInfoSet' = fills_run_info
    /\ rpc' = "returned"
    /\ hpc' = "returned"
    /\ UNCHANGED <<idx, s1, s2, errors, degraded, pl>>
    /\ UNCHANGED <<requestVars, cause, apiKey, lookup>>
    /\ UNCHANGED <<tasks, dbLock, dbVars, histVars>>
    /\ RunOnly

\* the keys resolve_mcp_api_key may be given: plaintext present (argument or
\* MCP_API_KEY), the row found and active, ALLOW_NO_AUTH, the cap of the row
\* and the tokens of the usage events of this month
KeyInputs ==
    {k \in [presented : {TRUE}, given : BOOLEAN, active : BOOLEAN, allow_no_auth : BOOLEAN,
            monthly_token_cap : {None} \cup (0..MaxMonthlyCap), used : 0..MaxUsed] :
        /\ (k.active => k.given /\ ~k.allow_no_auth)
        /\ (~k.active => k.monthly_token_cap = None /\ k.used = 0)}

is_quota_exceeded_ge(monthly_token_cap, used, estimated_minimum_next_run_tokens) ==
    IF monthly_token_cap = None \/ monthly_token_cap <= 0 THEN FALSE
    ELSE used + Max(0, estimated_minimum_next_run_tokens) >= monthly_token_cap

\* services/quota.py is_quota_exceeded
is_quota_exceeded(monthly_token_cap, used, estimated_minimum_next_run_tokens) ==
    IF monthly_token_cap = None \/ monthly_token_cap <= 0 THEN FALSE
    ELSE used + Max(0, estimated_minimum_next_run_tokens) > monthly_token_cap

\* mcp/auth.py resolve_mcp_api_key: the auth_errors it returns
resolve_mcp_api_key(k) ==
    IF ~k.given \/ ~k.active
    THEN (IF k.allow_no_auth THEN << >> ELSE <<Err("auth_required", "")>>)
    ELSE IF is_quota_exceeded(k.monthly_token_cap, k.used, 1)
    THEN <<Err("quota_exceeded", "")>>
    ELSE << >>

\* handle_council_ask / handle_council_pipeline after model_validate: the key
\* of the request is looked up
PresentKey ==
    /\ rpc = "running"
    /\ hpc = "init"
    /\ runtime = "mcp"
    /\ tool # "test_double"
    /\ apiKey' \in KeyInputs
    /\ hpc' = "auth"
    /\ UNCHANGED <<rpc, idx, s1, s2, errors, degraded, pl, runInfoSet, ret>>
    /\ UNCHANGED <<requestVars, cause, lookup>>
    /\ UNCHANGED <<tasks, dbLock, dbVars, histVars>>
    /\ RunOnly

\* `if auth_errors:` the degraded envelope, else the shared handler is called
ResolveKey ==
    /\ rpc = "running"
    /\ hpc = "auth"
    /\ IF resolve_mcp_api_key(apiKey) # << >>
       THEN Refuse(resolve_mcp_api_key(apiKey), FALSE)
       ELSE /\ hpc' = "handler"
            /\ apiKey' = NoKey
            /\ UNCHANGED <<rpc, idx, s1, s2, errors, degraded, pl, runInfoSet, ret>>
            /\ UNCHANGED <<requestVars, cause, lookup>>
            /\ UNCHANGED <<tasks, dbLock, dbVars, histVars>>
            /\ RunOnly

\* the api_keys tables the account routes can build: account_id is unset or
\* the id of another key whose own account_id is unset
KeyTables ==
    {f \in [Keys -> Keys \cup {None}] :
        \A k \in Keys : f[k] # None => (f[k] # k /\ f[f[k]] = None)}

LookupInputs ==
    {l \in [presented : {TRUE}, account_id : KeyTables, caller : Keys \cup {None},
            conversation : {"absent", "unknown", "stored"}, owner : Keys \cup {None}] :
        l.conversation # "stored" => l.owner = None}

\* account_root_id = (api_key.account_id or api_key.id) if api_key else None
account_root_id(account_id, caller) ==
    IF caller = None THEN None
    ELSE IF account_id[caller] # None THEN account_id[caller] ELSE caller

_conversation_scope_any(account_id, owner_key_id, root_id, conversation_owner) == TRUE

\* PostgresConversationStore._conversation_scope_clause for a conversation
\* whose owner_key_id is conversation_owner
_conversation_scope_clause(account_id, owner_key_id, root_id, conversation_owner) ==
    IF owner_key_id = None THEN conversation_owner = None
    ELSE LET root == IF root_id # None THEN root_id ELSE owner_key_id
             account_key_ids == {k \in Keys : k = root \/ account_id[k] = root}
         IN conversation_owner \in account_key_ids

\* council_ask / council_pipeline are entered with the caller's key and the
\* conversation_id of the request
PresentConversation ==
    /\ rpc = "running"
    /\ tool # "test_double"
    /\ hpc = IF runtime = "mcp" THEN "handler" ELSE "init"
    /\ lookup' \in LookupInputs
    /\ hpc' = "lookup"
    /\ UNCHANGED <<rpc, idx, s1, s2, errors, degraded, pl, runInfoSet, ret>>
    /\ UNCHANGED <<requestVars, cause, apiKey>>
    /\ UNCHANGED <<tasks, dbLock, dbVars, histVars>>
    /\ RunOnly

\* `if conversation_id:` store.get_conversation under the scope clause, else
\* create_conversation for the caller and get_conversation
ConversationLookup ==
    /\ rpc = "running"
    /\ hpc = "lookup"
    /\ LET root == account_root_id(lookup.account_id, lookup.caller)
           found(owner) == _conversation_scope_clause(lookup.account_id, lookup.caller,
                                                      root, owner)
           errs == IF lookup.conversation = "unknown"
                   THEN <<Err("conversation_not_found", "")>>
                   ELSE IF lookup.conversation = "stored"
                   THEN (IF found(lookup.owner) THEN << >>
                         ELSE <<Err("conversation_not_found", "")>>)
                   ELSE (IF found(lookup.caller) THEN << >>
                         ELSE <<Err("internal_error", "")>>)
       IN IF errs # << >>
          THEN Refuse(errs, TRUE)
          ELSE /\ hpc' = "create"
               /\ lookup' = NoLookup
               /\ UNCHANGED <<rpc, idx, s1, s2, errors, degraded, pl, runInfoSet, ret>>
               /\ UNCHANGED <<requestVars, cause, apiKey>>
               /\ UNCHANGED <<tasks, dbLock, dbVars, histVars>>
               /\ RunOnly

StartRun ==
    /\ rpc = "running"
    /\ hpc = IF tool = "test_double" THEN "init" ELSE "create"
    /\ run' = create_run
    /\ runC' = create_run
    /\ hpc' = "user_msg"
    /\ runInfoSet' = (tool = "test_double")
    /\ UNCHANGED <<rpc, idx, s1, s2, errors, degraded, pl, ret>>
    /\ UNCHANGED <<endCount, usage, steps, cache, cacheC, msgs, msgsC>>
    /\ UNCHANGED <<inputVars, tasks, dbLock, histVars>>
    /\ RunOnly

\* store.add_user_message
AddUserMessage ==
    /\ rpc = "running"
    /\ hpc = "user_msg"
    /\ msgs' = msgs + 1
    /\ hpc' = IF tool = "test_double" THEN "sleep"
              ELSE IF tool = "pipeline" THEN "leader"
              ELSE IF firstMsg THEN "title" ELSE "stage1"
    /\ idx' = 1
    /\ UNCHANGED <<rpc, s1, s2, errors, degraded, pl, runInfoSet, ret>>
    /\ UNCHANGED <<run, runC, endCount, usage, steps, cache, cacheC, msgsC>>
    /\ UNCHANGED <<inputVars, tasks, dbLock, histVars>>
    /\ RunOnly

\* the handler awaits one logical call (title, stage3) or a fan-out
Launch(newTasks, nextpc, n) ==
    /\ tasks' = newTasks
    /\ launches' = launches + n
    /\ hpc' = nextpc
    /\ UNCHANGED <<rpc, idx, s1, s2, errors, degraded, pl, runInfoSet, ret>>
    /\ UNCHANGED <<inputVars, dbLock, dbVars>>
    /\ UNCHANGED <<calls, usageLog, cacheWrites, nextCallId, budgetFailedAt>>
    /\ RunOnly

One(task) == [t \in TaskIds |-> IF t = 1 THEN task ELSE FreeTask]

\* runner.generate_title
TitleLaunch ==
    /\ rpc = "running" /\ hpc = "title"
    /\ Launch(One(NewTask("title", TitleModel, launches + 1)), "title_wait", 1)

\* store.update_conversation_title
TitleJoin ==
    /\ rpc = "running" /\ hpc = "title_wait" /\ AllDone
    /\ tasks' = FreeAll
    /\ hpc' = "stage1"
    /\ idx' = 1
    /\ UNCHANGED <<rpc, s1, s2, errors, degraded, pl, runInfoSet, ret>>
    /\ UNCHANGED <<inputVars, dbLock, dbVars, histVars>>
    /\ RunOnly

\* runner.stage1: the sequential loop or asyncio.gather over _one
Stage1Launch ==
    /\ rpc = "running" /\ hpc = "stage1"
    /\ IF RunsSequentially(budget)
       THEN Launch(One(NewTask("stage1", council_models[idx], launches + 1)), "stage1_wait", 1)
       ELSE Launch([t \in TaskIds |->
                       IF t <= NumCouncil
                       THEN NewTask("stage1", council_models[t], launches + t)
                       ELSE FreeTask],
                   "stage1_wait", NumCouncil)

RECURSIVE ContentOfLatestFirst(_, _)
ContentOfLatestFirst(ts, n) ==
    IF n = 0 THEN << >>
    ELSE (IF ts[n].out = "content" THEN <<ts[n].model>> ELSE << >>) \o ContentOfLatestFirst(ts, n - 1)

RECURSIVE ContentOf(_, _)
\* stage1_results of the tasks 1..n, in task order
ContentOf(ts, n) ==
    IF n = 0 THEN << >>
    ELSE ContentOf(ts, n - 1) \o (IF ts[n].out = "content" THEN <<ts[n].model>> ELSE << >>)

Stage1FailedUnnamed(got, n) == << >>

RECURSIVE Stage1Failed(_, _)
\* stage1_model_failed:<m> for the council models without content
Stage1Failed(got, n) ==
    IF n = 0 THEN << >>
    ELSE Stage1Failed(got, n - 1) \o
         (IF \E i \in 1..Len(got) : got[i] = council_models[n] THEN << >>
          ELSE <<Err("stage1_model_failed", council_models[n])>>)

Stage1Join ==
    /\ rpc = "running" /\ hpc = "stage1_wait" /\ AllDone
    /\ LET n == Cardinality(ActiveTasks)
           got == s1 \o ContentOf(tasks, n)
           more == RunsSequentially(budget) /\ idx < NumCouncil
           failed == Stage1Failed(got, NumCouncil)
       IN /\ s1' = got
          /\ tasks' = FreeAll
          /\ IF more
             THEN /\ idx' = idx + 1
                  /\ hpc' = "stage1"
                  /\ UNCHANGED <<errors, degraded, pl>>
             ELSE /\ idx' = 1
                  /\ errors' = errors \o failed
                               \o (IF got = << >> THEN <<Err("internal_error", "")>> ELSE << >>)
                  /\ degraded' = (degraded \/ failed # << >> \/ got = << >>)
                  /\ pl' = IF got = << >> THEN [pl EXCEPT !.answer = "all_failed"] ELSE pl
                  /\ hpc' = IF got = << >> THEN "asst_msg" ELSE "stage2"
    /\ UNCHANGED <<rpc, s2, runInfoSet, ret>>
    /\ UNCHANGED <<inputVars, dbLock, dbVars, histVars>>
    /\ RunOnly

\* runner.stage2: the sequential loop or asyncio.gather over _judge
Stage2Launch ==
    /\ rpc = "running" /\ hpc = "stage2"
    /\ IF RunsSequentially(budget)
       THEN Launch(One(NewTask("stage2", judges[idx], launches + 1)), "stage2_wait", 1)
       ELSE Launch([t \in TaskIds |->
                       IF t <= Len(judges)
                       THEN NewTask("stage2", judges[t], launches + t)
                       ELSE FreeTask],
                   "stage2_wait", Len(judges))

RECURSIVE JudgedOf(_, _)
\* stage2_results of the tasks 1..n: the judges that returned a dict
JudgedOf(ts, n) ==
    IF n = 0 THEN << >>
    ELSE JudgedOf(ts, n - 1) \o
         (IF ts[n].out = "none" THEN << >>
          ELSE <<[model |-> ts[n].model, valid |-> (ts[n].out = "valid")]>>)

RECURSIVE Stage2Invalid(_)
Stage2Invalid(judged) ==
    IF judged = << >> THEN << >>
    ELSE (IF Head(judged).valid THEN << >> ELSE <<Err("stage2_invalid_json", Head(judged).model)>>)
         \o Stage2Invalid(Tail(judged))

Stage2Join ==
    /\ rpc = "running" /\ hpc = "stage2_wait" /\ AllDone
    /\ LET n == Cardinality(ActiveTasks)
           got == s2 \o JudgedOf(tasks, n)
           more == RunsSequentially(budget) /\ idx < Len(judges)
       IN /\ s2' = got
          /\ tasks' = FreeAll
          /\ IF more
             THEN /\ idx' = idx + 1
                  /\ hpc' = "stage2"
                  /\ UNCHANGED <<errors, degraded>>
             ELSE /\ idx' = 1
                  /\ errors' = errors \o Stage2Invalid(got)
                  /\ degraded' = (degraded \/ Stage2Invalid(got) # << >>)
                  /\ hpc' = "stage3"
    /\ UNCHANGED <<rpc, s1, pl, runInfoSet, ret>>
    /\ UNCHANGED <<inputVars, dbLock, dbVars, histVars>>
    /\ RunOnly

\* runner.stage3
Stage3Launch ==
    /\ rpc = "running" /\ hpc = "stage3"
    /\ Launch(One(NewTask("stage3", chairman_model, launches + 1)), "stage3_wait", 1)

Stage3Join ==
    /\ rpc = "running" /\ hpc = "stage3_wait" /\ AllDone
    /\ LET okc == tasks[1].out = "content"
       IN /\ errors' = errors \o (IF okc THEN << >> ELSE <<Err("chairman_failed", "")>>)
          /\ degraded' = (degraded \/ ~okc)
          /\ pl' = [pl EXCEPT !.answer = IF okc THEN "text" ELSE "Error:"]
    /\ tasks' = FreeAll
    /\ hpc' = "asst_msg"
    /\ UNCHANGED <<rpc, idx, s1, s2, runInfoSet, ret>>
    /\ UNCHANGED <<inputVars, dbLock, dbVars, histVars>>
    /\ RunOnly

\* store.add_assistant_message (council_ask line 241)
AddAssistantMessage ==
    /\ rpc = "running" /\ hpc = "asst_msg"
    /\ msgs' = msgs + 1
    /\ hpc' = "finish"
    /\ UNCHANGED <<rpc, idx, s1, s2, errors, degraded, pl, runInfoSet, ret>>
    /\ UNCHANGED <<run, runC, endCount, usage, steps, cache, cacheC, msgsC>>
    /\ UNCHANGED <<inputVars, tasks, dbLock, histVars>>
    /\ RunOnly

EndRunStep(status, nextpc, errs) ==
    /\ run' = end_run(run, status, endCount + 1)
    /\ endCount' = IF run.exists THEN endCount + 1 ELSE endCount
    /\ errors' = errs
    /\ hpc' = nextpc
    /\ UNCHANGED <<rpc, idx, s1, s2, pl, runInfoSet, ret>>
    /\ UNCHANGED <<runC, usage, steps, cache, cacheC, msgs, msgsC>>
    /\ UNCHANGED <<inputVars, tasks, dbLock, histVars>>
    /\ RunOnly

AskStatusAlways(errs) == "succeeded"

\* status = "succeeded" if not errors else "failed"
AskStatus(errs) == IF errs = << >> THEN "succeeded" ELSE "failed"

\* status = "succeeded" if result.gate_verdict == "PASS" else "failed"
PipelineStatus(verdict) == IF verdict = "PASS" THEN "succeeded" ELSE "failed"

\* runner.finish_run with status succeeded iff errors is empty
FinishRun ==
    /\ rpc = "running" /\ hpc = "finish"
    /\ UNCHANGED degraded
    /\ EndRunStep(AskStatus(errors), "summary", errors)

BudgetErrorsDropped(errs) == errs

\* errors.append("budget_exceeded") of the budget branch of either handler
BudgetErrors(errs) == errs \o <<Err("budget_exceeded", "")>>

\* except CouncilBudgetExceeded / BudgetExceeded: errors.append, end_run("failed")
BudgetFinish ==
    /\ rpc = "running" /\ hpc = "b_finish"
    /\ degraded' = TRUE
    /\ EndRunStep("failed", "b_summary", BudgetErrors(errors))

\* except Exception: errors.append, finish_run("failed")
ExceptionFinish ==
    /\ rpc = "running" /\ hpc = "x_finish"
    /\ degraded' = TRUE
    /\ EndRunStep("failed", "x_summary", errors \o <<Err("internal_error", "")>>)

\* usage_summary, the output envelope, the return through handle_council_ask
\* (which fills run_info) and the commit of the caller of the runtime
Return(answer, verdict) ==
    /\ ret' = [by |-> "handler", errors |-> errors, degraded |-> degraded',
               final_answer |-> answer, gate_verdict |-> verdict,
               final_codex_prompt |-> IF hpc = "p_return" THEN pl.prompt ELSE None]
    /\ runInfoSet' = TRUE
    /\ rpc' = "returned"
    /\ hpc' = "returned"
    /\ runC' = run
    /\ cacheC' = cache
    /\ msgsC' = msgs
    /\ UNCHANGED <<idx, s1, s2, errors, pl>>
    /\ UNCHANGED <<run, endCount, usage, steps, cache, msgs>>
    /\ UNCHANGED <<inputVars, tasks, dbLock, histVars>>
    /\ RunOnly

\* fake_dispatch_tool of tests/test_mcp_ops_hardening.py returns after its sleep
TestDoubleReturn ==
    /\ rpc = "running" /\ tool = "test_double"
    /\ hpc = "sleep"
    /\ UNCHANGED degraded
    /\ Return("", "")

AskReturn ==
    /\ rpc = "running" /\ tool = "ask"
    /\ UNCHANGED degraded
    /\ \/ hpc = "summary" /\ Return(pl.answer, "")
       \/ hpc \in {"b_summary", "x_summary"} /\ Return("", "")

TryPcs == {"user_msg", "asst_msg", "finish", "summary", "p_summary"}

\* a store or ledger operation of the try block raises
HandlerException ==
    /\ rpc = "running"
    /\ hpc \in TryPcs
    /\ hpc' = "x_finish"
    /\ tasks' = FreeAll
    /\ UNCHANGED <<rpc, idx, s1, s2, errors, degraded, pl, runInfoSet, ret>>
    /\ UNCHANGED <<inputVars, dbLock, dbVars, histVars>>
    /\ RunOnly

(***************************************************************************)
(* services/council_runner.py: one logical call (_one, _judge,             *)
(* generate_title, stage3)                                                 *)
(***************************************************************************)
CacheKeyOf(t) ==
    IF t.site = "stage1" THEN Stage1Key(t.model) ELSE Stage2Key(t.model, s1)

CacheHitStage1(t, entries) == t.site = "stage1" /\ CacheKeyOf(t) \in entries

\* `cached = await self._cache.get_json(cache_key)` and `if cached and ...`
\* of _one and of _judge
CacheHit(t, entries) == t.site \in {"stage1", "stage2"} /\ CacheKeyOf(t) \in entries

Issue(i, attempt, call_id) ==
    /\ calls' = Append(calls, CallEntry(tasks[i], call_id, attempt))
    /\ tasks' = [tasks EXCEPT ![i] =
           [@ EXCEPT !.pc = "inflight", !.call_id = call_id, !.attempt = attempt,
                     !.ci = Len(calls) + 1]]

\* cache lookup; on a hit the cached value is returned, else call_id is drawn
\* and query_model is entered
TaskStart(i) ==
    /\ rpc = "running"
    /\ tasks[i].pc = "start"
    /\ IF CacheHit(tasks[i], cache)
       THEN /\ steps' = Append(steps, RunStepOf(tasks[i].site, tasks[i].model, 0, FALSE, TRUE))
            /\ tasks' = [tasks EXCEPT ![i] =
                   [@ EXCEPT !.pc = "done",
                             !.out = IF tasks[i].site = "stage1" THEN "content" ELSE "valid"]]
            /\ UNCHANGED <<calls, nextCallId>>
       ELSE /\ Issue(i, 0, nextCallId)
            /\ nextCallId' = nextCallId + 1
            /\ UNCHANGED steps
    /\ UNCHANGED <<run, runC, endCount, usage, cache, cacheC, msgs, msgsC>>
    /\ UNCHANGED <<usageLog, cacheWrites, launches, budgetFailedAt>>
    /\ UNCHANGED <<inputVars, handlerVars, dbLock>>
    /\ RunOnly

RecordNothing(ev) == << >>

\* record_usage_event: the rows one attempt adds
Record(ev) == <<ev>>

\* query_model returns res; record_usage_event adds the event of the attempt
TaskReturn(i, res) ==
    /\ rpc = "running"
    /\ tasks[i].pc = "inflight"
    /\ tasks[i].site \in CouncilSites
    /\ res \in ResultsFor(tasks[i].site)
    /\ Admitted(res)
    /\ LET t == tasks[i]
           ev == UsageEventOf(t.model, t.call_id, t.attempt, res)
       IN /\ usage' = usage \o Record(ev)
          /\ usageLog' = usageLog \o Record(ev)
          /\ calls' = [calls EXCEPT ![t.ci] =
                 [@ EXCEPT !.returned = TRUE, !.verr = (res \notin {"valid", "emptyrank"}),
                           !.fault = Faulty(res)]]
          /\ tasks' = [tasks EXCEPT ![i] = [@ EXCEPT !.pc = "check", !.res = res]]
    /\ UNCHANGED <<run, runC, endCount, steps, cache, cacheC, msgs, msgsC>>
    /\ UNCHANGED <<cacheWrites, nextCallId, launches, budgetFailedAt>>
    /\ UNCHANGED <<inputVars, handlerVars, dbLock>>
    /\ RunOnly

\* self._check_budget(run_id): CouncilBudgetExceeded reaches the handler
TaskCheck(i) ==
    /\ rpc = "running"
    /\ tasks[i].pc = "check"
    /\ tasks[i].site \in CouncilSites
    /\ IF _check_budget(budget, usage) # "ok"
       THEN /\ budgetFailedAt' = Len(calls)
            /\ tasks' = FreeAll
            /\ hpc' = "b_finish"
            /\ UNCHANGED calls
       ELSE /\ calls' = [calls EXCEPT ![tasks[i].ci] = [@ EXCEPT !.checked = TRUE]]
            /\ tasks' = [tasks EXCEPT ![i] = [@ EXCEPT !.pc = "step"]]
            /\ UNCHANGED <<budgetFailedAt, hpc>>
    /\ UNCHANGED <<rpc, idx, s1, s2, errors, degraded, pl, runInfoSet, ret>>
    /\ UNCHANGED <<usageLog, cacheWrites, nextCallId, launches>>
    /\ UNCHANGED <<inputVars, dbLock, dbVars>>
    /\ RunOnly

MayCacheAlways(site, attempt, res) == site \in {"stage1", "stage2"}

\* `if result.ok and result.content is not None` of _one, `if out["valid"]` of _judge
MayCache(site, attempt, res) ==
    \/ site = "stage1" /\ res = "ok"
    \/ site = "stage2" /\ res = "valid"

NeedsRetryAlways(attempt, res) == attempt < 2 /\ res # "valid"

\* _judge: `if validation_error:` after an attempt 0 that has content
NeedsRetry(attempt, res) == attempt = 0 /\ res = "invalid"

OutOfJudged(site, attempt, res) ==
    IF site = "stage2"
    THEN IF res = "valid" THEN "valid" ELSE "invalid"
    ELSE IF res = "ok" THEN "content" ELSE "none"

\* what the logical call hands to the stage
OutOf(site, attempt, res) ==
    IF site = "stage2"
    THEN IF attempt = 0 /\ res \in {"fail", "nocontent"} THEN "none"
         ELSE IF res = "valid" THEN "valid" ELSE "invalid"
    ELSE IF res = "ok" THEN "content" ELSE "none"

\* add_run_step of the attempt, then the retry, the cache write or the return
TaskStep(i) ==
    /\ rpc = "running"
    /\ tasks[i].pc = "step"
    /\ LET t == tasks[i]
       IN /\ steps' = Append(steps, RunStepOf(t.site, t.model, t.attempt, t.attempt > 0, FALSE))
          /\ IF t.site = "stage2" /\ NeedsRetry(t.attempt, t.res)
             THEN /\ Issue(i, t.attempt + 1, t.call_id)
                  /\ UNCHANGED <<cache, cacheWrites>>
             ELSE /\ tasks' = [tasks EXCEPT ![i] =
                         [@ EXCEPT !.pc = "done", !.out = OutOf(t.site, t.attempt, t.res)]]
                  /\ IF MayCache(t.site, t.attempt, t.res)
                     THEN /\ cache' = cache \cup {CacheKeyOf(t)}
                          /\ cacheWrites' = Append(cacheWrites,
                                 [key |-> CacheKeyOf(t), site |-> t.site, res |-> t.res,
                                  attempt |-> t.attempt])
                     ELSE UNCHANGED <<cache, cacheWrites>>
                  /\ UNCHANGED calls
    /\ UNCHANGED <<run, runC, endCount, usage, cacheC, msgs, msgsC>>
    /\ UNCHANGED <<usageLog, nextCallId, launches, budgetFailedAt>>
    /\ UNCHANGED <<inputVars, handlerVars, dbLock>>
    /\ RunOnly

(***************************************************************************)
(* engine/pipeline/runner.py PipelineRunner and tools/handlers.py          *)
(* council_pipeline                                                        *)
(***************************************************************************)
\* config.IMPLEMENTER_MODEL, the one per-role override that is set
IMPLEMENTER_MODEL == "i1"

PipelineModelsOfLeader ==
    [leader |-> chairman_model, reviewer |-> council_models[1], security |-> council_models[1],
     test_writer |-> council_models[NumCouncil], implementer |-> chairman_model,
     gate |-> chairman_model]

\* resolve_pipeline_models: the override or the default of the mode
PipelineModels ==
    [leader |-> chairman_model, reviewer |-> council_models[1], security |-> council_models[1],
     test_writer |-> council_models[NumCouncil], implementer |-> IMPLEMENTER_MODEL,
     gate |-> chairman_model]

\* scope contracts a leader may return: agents_to_invoke, tests_policy.required
\* and whether in_scope names file paths
LeaderContracts ==
    << [agents |-> {"reviewer", "security"}, tests |-> FALSE, paths |-> TRUE],
       [agents |-> {"reviewer", "test_writer"}, tests |-> FALSE, paths |-> FALSE],
       [agents |-> {"security", "test_writer"}, tests |-> TRUE, paths |-> FALSE] >>

InScope == 0
OutsideScope == 1
MissingScope == 2
GateFail == 0
GatePass == 1

\* the parsed outputs a role may return
DataFor(site) ==
    IF site = "leader" THEN 1..Len(LeaderContracts)
    ELSE IF site \in {"reviewer", "security"} THEN {0, 1}
    ELSE IF site = "implementer" THEN {InScope, OutsideScope, MissingScope}
    ELSE IF site = "gate" THEN {GateFail, GatePass}
    ELSE {0}

RoleResults == {"valid", "invalid", "fail"}

_enforce_scope_lax(paths, patch) ==
    IF ~paths THEN {}
    ELSE IF patch = MissingScope THEN {"(patch_scope_missing)"}
    ELSE {}

\* _enforce_scope_paths: the violations of an implementer output whose
\* patch_scope is within in_scope (InScope), has a path outside it
\* (OutsideScope) or is empty (MissingScope); paths: in_scope names file paths
_enforce_scope_paths(paths, patch) ==
    IF ~paths THEN {}
    ELSE IF patch = MissingScope THEN {"(patch_scope_missing)"}
    ELSE IF patch = OutsideScope THEN {"outside_path"}
    ELSE {}

PlStep(newpl, nextpc) ==
    /\ pl' = newpl
    /\ hpc' = nextpc
    /\ tasks' = FreeAll
    /\ UNCHANGED <<rpc, s1, s2, errors, degraded, runInfoSet, ret>>
    /\ UNCHANGED <<inputVars, dbLock, dbVars, histVars>>
    /\ RunOnly

FailedSilently(role) == << >>

\* errors.append(f"invalid_json:{role}")
Failed(role) == <<Err("invalid_json", role)>>

LeaderLaunch ==
    /\ rpc = "running" /\ hpc = "leader"
    /\ Launch(One(NewTask("leader", PipelineModels.leader, launches + 1)), "leader_wait", 1)

LeaderJoin ==
    /\ rpc = "running" /\ hpc = "leader_wait" /\ AllDone
    /\ UNCHANGED idx
    /\ IF tasks[1].out = "none"
       THEN PlStep([pl EXCEPT !.errors = @ \o Failed("leader"), !.degraded = TRUE,
                              !.verdict = "FAIL"], "p_finish")
       ELSE LET sc == LeaderContracts[tasks[1].data]
            IN PlStep([pl EXCEPT !.agents = sc.agents \cup {"implementer", "gate"},
                                 !.tests = sc.tests, !.paths = sc.paths], "review")

Pending(role) == role \in pl.agents /\ pl[role] = ""

\* the reviewer and security calls: asyncio.gather of both, or one at a time
ReviewLaunch ==
    /\ rpc = "running" /\ hpc = "review"
    /\ IF "reviewer" \in pl.agents /\ "security" \in pl.agents /\ ~RunsSequentially(budget)
       THEN Launch([t \in TaskIds |->
                       IF t = 1 THEN NewTask("reviewer", PipelineModels.reviewer, launches + 1)
                       ELSE IF t = 2 THEN NewTask("security", PipelineModels.security, launches + 2)
                       ELSE FreeTask],
                   "review_wait", 2)
       ELSE IF Pending("reviewer")
       THEN Launch(One(NewTask("reviewer", PipelineModels.reviewer, launches + 1)), "review_wait", 1)
       ELSE IF Pending("security")
       THEN Launch(One(NewTask("security", PipelineModels.security, launches + 1)), "review_wait", 1)
       ELSE Launch(FreeAll, "tests", 0)

Verdict(t) == IF t.out = "none" THEN "none" ELSE IF t.data = 1 THEN "tests" ELSE "plain"

RECURSIVE Reviewed(_, _, _)
\* the outputs of the tasks 1..n folded into the runner's locals
Reviewed(p, ts, n) ==
    IF n = 0 THEN p
    ELSE LET q == Reviewed(p, ts, n - 1)
             role == ts[n].site
         IN [q EXCEPT ![role] = Verdict(ts[n]),
                      !.errors = @ \o (IF ts[n].out = "none" THEN Failed(role) ELSE << >>),
                      !.degraded = @ \/ ts[n].out = "none"]

ReviewJoin ==
    /\ rpc = "running" /\ hpc = "review_wait" /\ AllDone
    /\ UNCHANGED idx
    /\ LET q == Reviewed(pl, tasks, Cardinality(ActiveTasks))
           again == \E role \in {"reviewer", "security"} : role \in q.agents /\ q[role] = ""
       IN PlStep(q, IF again THEN "review" ELSE "tests")

tests_neededAlways == TRUE

\* tests_policy.required, reviewer.tests_recommended, security.tests_required
tests_needed == pl.tests \/ pl.reviewer = "tests" \/ pl.security = "tests"

TestWriterLaunch ==
    /\ rpc = "running" /\ hpc = "tests"
    /\ IF tests_needed /\ "test_writer" \in pl.agents
       THEN Launch(One(NewTask("test_writer", PipelineModels.test_writer, launches + 1)),
                   "tests_wait", 1)
       ELSE Launch(FreeAll, "implementer", 0)

TestWriterJoin ==
    /\ rpc = "running" /\ hpc = "tests_wait" /\ AllDone
    /\ UNCHANGED idx
    /\ PlStep(Reviewed(pl, tasks, 1), "implementer")

ImplementerLaunch ==
    /\ rpc = "running" /\ hpc = "implementer"
    /\ Launch(One(NewTask("implementer", PipelineModels.implementer, launches + 1)),
              "implementer_wait", 1)

\* `if violations:` the synthesized GateOutput with one must_fix per violation
ScopeViolation(p, violations) ==
    [p EXCEPT !.errors = @ \o <<Err("scope_violation", "")>>, !.degraded = TRUE,
              !.gate = "deterministic", !.verdict = "FAIL", !.must_fix = violations]

ImplementerJoin ==
    /\ rpc = "running" /\ hpc = "implementer_wait" /\ AllDone
    /\ idx' = 0
    /\ IF tasks[1].out = "none"
       THEN PlStep([pl EXCEPT !.errors = @ \o Failed("implementer"), !.degraded = TRUE,
                              !.implementer = "none", !.verdict = "FAIL"], "p_finish")
       ELSE IF _enforce_scope_paths(pl.paths, tasks[1].data) # {}
       THEN PlStep(ScopeViolation([pl EXCEPT !.implementer = "valid", !.impl = tasks[1].lc],
                                  _enforce_scope_paths(pl.paths, tasks[1].data)), "scope_step")
       ELSE PlStep([pl EXCEPT !.implementer = "valid", !.impl = tasks[1].lc], "gate")

\* the deterministic gate step of a scope violation, added under the db lock
ScopeGateStep ==
    /\ rpc = "running" /\ hpc = "scope_step"
    /\ dbLock = 0
    /\ steps' = Append(steps, RunStepOf("gate", "deterministic", 0, FALSE, FALSE))
    /\ hpc' = "p_finish"
    /\ UNCHANGED <<rpc, idx, s1, s2, errors, degraded, pl, runInfoSet, ret>>
    /\ UNCHANGED <<run, runC, endCount, usage, cache, cacheC, msgs, msgsC>>
    /\ UNCHANGED <<inputVars, tasks, dbLock, histVars>>
    /\ RunOnly

\* `for iteration in range(self._max_iterations)`: idx is the iteration
GateLaunch ==
    /\ rpc = "running" /\ hpc = "gate"
    /\ Launch(One(NewTask("gate", PipelineModels.gate, launches + 1)), "gate_wait", 1)

FinalFail(p) == [p EXCEPT !.verdict = "FAIL", !.degraded = (p.errors # << >> \/ p.degraded)]

GateJoin ==
    /\ rpc = "running" /\ hpc = "gate_wait" /\ AllDone
    /\ UNCHANGED idx
    /\ IF tasks[1].out = "none"
       THEN PlStep([pl EXCEPT !.errors = @ \o Failed("gate"), !.degraded = TRUE,
                              !.gate = "none", !.verdict = "FAIL"], "p_finish")
       ELSE IF tasks[1].data = GatePass
       THEN PlStep([pl EXCEPT !.gate = "PASS", !.verdict = "PASS", !.prompt = pl.impl], "p_finish")
       ELSE IF idx >= maxIter - 1
       THEN PlStep(FinalFail([pl EXCEPT !.gate = "FAIL"]), "p_finish")
       ELSE PlStep([pl EXCEPT !.gate = "FAIL"], "revise")

\* the revision call: role implementer on the leader model
ReviseLaunch ==
    /\ rpc = "running" /\ hpc = "revise"
    /\ Launch(One(NewTask("implementer", PipelineModels.leader, launches + 1)), "revise_wait", 1)

ReviseJoin ==
    /\ rpc = "running" /\ hpc = "revise_wait" /\ AllDone
    /\ idx' = idx + 1
    /\ IF tasks[1].out = "none"
       THEN PlStep(FinalFail([pl EXCEPT !.errors = @ \o Failed("implementer"),
                                        !.degraded = TRUE]), "p_finish")
       ELSE IF _enforce_scope_paths(pl.paths, tasks[1].data) # {}
       THEN PlStep(ScopeViolation([pl EXCEPT !.impl = tasks[1].lc],
                                  _enforce_scope_paths(pl.paths, tasks[1].data)),
                   "scope_step")
       ELSE PlStep([pl EXCEPT !.impl = tasks[1].lc], "gate")

\* errors.extend(result.errors), then run_service.end_run by the gate verdict
PipelineFinish ==
    /\ rpc = "running" /\ hpc = "p_finish"
    /\ degraded' = (degraded \/ pl.degraded)
    /\ EndRunStep(PipelineStatus(pl.verdict), "p_summary",
                  errors \o pl.errors)

\* usage_summary, then store.add_assistant_message (line 401)
PipelineAssistantMessage ==
    /\ rpc = "running" /\ hpc = "p_summary"
    /\ msgs' = msgs + 1
    /\ hpc' = "p_return"
    /\ UNCHANGED <<rpc, idx, s1, s2, errors, degraded, pl, runInfoSet, ret>>
    /\ UNCHANGED <<run, runC, endCount, usage, steps, cache, cacheC, msgsC>>
    /\ UNCHANGED <<inputVars, tasks, dbLock, histVars>>
    /\ RunOnly

PipelineReturn ==
    /\ rpc = "running" /\ tool = "pipeline"
    /\ \/ /\ hpc = "p_return"
          /\ degraded' = (degraded \/ errors # << >>)
          /\ Return("", IF pl.verdict = "PASS" THEN "PASS" ELSE "FAIL")
       \/ /\ hpc \in {"b_summary", "x_summary"}
          /\ UNCHANGED degraded
          /\ Return("", "FAIL")

\* query_model returns to _call_json_role, which then waits for the db lock
RoleReturn(i, res, data) ==
    /\ rpc = "running"
    /\ tasks[i].pc = "inflight"
    /\ tasks[i].site \in PipelineSites
    /\ res \in RoleResults
    /\ Admitted(res)
    /\ data \in (IF res = "valid" THEN DataFor(tasks[i].site) ELSE {0})
    /\ calls' = [calls EXCEPT ![tasks[i].ci] =
           [@ EXCEPT !.returned = TRUE, !.verr = (res # "valid"), !.fault = Faulty(res)]]
    /\ tasks' = [tasks EXCEPT ![i] = [@ EXCEPT !.pc = "lock", !.res = res, !.data = data]]
    /\ UNCHANGED <<usageLog, cacheWrites, nextCallId, launches, budgetFailedAt>>
    /\ UNCHANGED <<inputVars, handlerVars, dbLock, dbVars>>
    /\ RunOnly

\* async with self._db_lock: record_usage_event, add_run_step
RoleRecord(i) ==
    /\ rpc = "running"
    /\ tasks[i].pc = "lock"
    /\ dbLock = 0
    /\ dbLock' = i
    /\ LET t == tasks[i]
           ev == UsageEventOf(t.model, t.call_id, t.attempt, t.res)
       IN /\ usage' = usage \o Record(ev)
          /\ usageLog' = usageLog \o Record(ev)
          /\ steps' = Append(steps, RunStepOf(t.site, t.model, t.attempt, t.attempt > 0, FALSE))
          /\ tasks' = [tasks EXCEPT ![i] = [@ EXCEPT !.pc = "pcheck"]]
    /\ UNCHANGED <<run, runC, endCount, cache, cacheC, msgs, msgsC>>
    /\ UNCHANGED <<calls, cacheWrites, nextCallId, launches, budgetFailedAt>>
    /\ UNCHANGED <<inputVars, handlerVars>>
    /\ RunOnly

\* `if attempt == 0: ... continue` of the `for attempt in (0, 1)` loop
RoleRetry(attempt, res) == attempt = 0 /\ res # "valid"

\* await self._check_budget() still under the lock, then the retry or the return
RoleCheck(i) ==
    /\ rpc = "running"
    /\ tasks[i].pc = "pcheck"
    /\ dbLock' = 0
    /\ LET t == tasks[i]
       IN IF PipelineCheckBudget(budget, usage) # "ok"
          THEN /\ budgetFailedAt' = Len(calls)
               /\ tasks' = FreeAll
               /\ hpc' = "b_finish"
               /\ UNCHANGED calls
          ELSE /\ UNCHANGED <<budgetFailedAt, hpc>>
               /\ IF RoleRetry(t.attempt, t.res)
                  THEN /\ tasks' = [tasks EXCEPT ![i] =
                              [@ EXCEPT !.pc = "inflight", !.attempt = t.attempt + 1,
                                        !.ci = Len(calls) + 1]]
                       /\ calls' = Append([calls EXCEPT ![t.ci] = [@ EXCEPT !.checked = TRUE]],
                                          CallEntry(t, t.call_id, t.attempt + 1))
                  ELSE /\ tasks' = [tasks EXCEPT ![i] =
                              [@ EXCEPT !.pc = "done",
                                        !.out = IF t.res = "valid" THEN "valid" ELSE "none"]]
                       /\ calls' = [calls EXCEPT ![t.ci] = [@ EXCEPT !.checked = TRUE]]
    /\ UNCHANGED <<rpc, idx, s1, s2, errors, degraded, pl, runInfoSet, ret>>
    /\ UNCHANGED <<usageLog, cacheWrites, nextCallId, launches>>
    /\ UNCHANGED <<inputVars, dbVars>>
    /\ RunOnly

RunNext ==
    \/ RuntimeStart
    \/ PresentKey
    \/ ResolveKey
    \/ PresentConversation
    \/ ConversationLookup
    \/ \E reason \in {"timeout", "cancelled"} : Timeout(reason)
    \/ EscapingException
    \/ \E c \in ValidationCauses : ValidationFailure(c)
    \/ StartRun
    \/ TestDoubleReturn
    \/ AddUserMessage
    \/ TitleLaunch
    \/ TitleJoin
    \/ Stage1Launch
    \/ Stage1Join
    \/ Stage2Launch
    \/ Stage2Join
    \/ Stage3Launch
    \/ Stage3Join
    \/ AddAssistantMessage
    \/ FinishRun
    \/ BudgetFinish
    \/ ExceptionFinish
    \/ AskReturn
    \/ HandlerException
    \/ \E i \in TaskIds : TaskStart(i)
    \/ \E i \in TaskIds, res \in JudgeResults \cup PlainResults : TaskReturn(i, res)
    \/ \E i \in TaskIds : TaskCheck(i)
    \/ \E i \in TaskIds : TaskStep(i)
    \/ LeaderLaunch
    \/ LeaderJoin
    \/ ReviewLaunch
    \/ ReviewJoin
    \/ TestWriterLaunch
    \/ TestWriterJoin
    \/ ImplementerLaunch
    \/ ImplementerJoin
    \/ ScopeGateStep
    \/ GateLaunch
    \/ GateJoin
    \/ ReviseLaunch
    \/ ReviseJoin
    \/ PipelineFinish
    \/ PipelineAssistantMessage
    \/ PipelineReturn
    \/ \E i \in TaskIds, res \in RoleResults, data \in 0..Len(LeaderContracts) :
           RoleReturn(i, res, data)
    \/ \E i \in TaskIds : RoleRecord(i)
    \/ \E i \in TaskIds : RoleCheck(i)

SpecRun == RunInit /\ [][RunNext]_vars

(***************************************************************************)
(* The pipeline alone, without a budget, for every requested               *)
(* max_iterations: engine/pipeline/runner.py PipelineRunner.run             *)
(***************************************************************************)
LoopInit ==
    /\ ClientParked
    /\ BudgetParked
    /\ GuardParked
    /\ PureParked
    /\ runtime = "mcp"
    /\ tool = "pipeline"
    /\ budget = NoBudget
    /\ firstMsg = FALSE
    /\ reqIter \in {0, DefaultIterations, MaxRequested}
    /\ maxIter = _clamp_max_iterations(reqIter)
    /\ faultCap = MaxFaults
    /\ judges = judge_models
    /\ cacheC = {}
    /\ RunFresh

LoopNext ==
    \/ RuntimeStart
    \/ PresentKey
    \/ ResolveKey
    \/ PresentConversation
    \/ ConversationLookup
    \/ EscapingException
    \/ \E c \in ValidationCauses : ValidationFailure(c)
    \/ StartRun
    \/ AddUserMessage
    \/ ExceptionFinish
    \/ HandlerException
    \/ LeaderLaunch
    \/ LeaderJoin
    \/ ReviewLaunch
    \/ ReviewJoin
    \/ TestWriterLaunch
    \/ TestWriterJoin
    \/ ImplementerLaunch
    \/ ImplementerJoin
    \/ ScopeGateStep
    \/ GateLaunch
    \/ GateJoin
    \/ ReviseLaunch
    \/ ReviseJoin
    \/ PipelineFinish
    \/ PipelineAssistantMessage
    \/ PipelineReturn
    \/ \E i \in TaskIds : TaskStart(i)
    \/ \E i \in TaskIds, res \in RoleResults, data \in 0..Len(LeaderContracts) :
           RoleReturn(i, res, data)
    \/ \E i \in TaskIds : RoleRecord(i)
    \/ \E i \in TaskIds : RoleCheck(i)

\* the handler is left to run to its end (no timeout of the runtime, no
\* cancellation): the event loop runs every task that is ready and every
\* upstream call returns, the HTTP client having a timeout of its own
SpecLoop == LoopInit /\ [][LoopNext]_vars /\ WF_vars(LoopNext)

(***************************************************************************)
(* council.ask asked again: the cache holds what an earlier council.ask    *)
(* with the same prompt and the same models has committed                  *)
(***************************************************************************)
\* the stage-1 results of an ask in which the models of X answered
Stage1ResultsOf(X) == SelectSeq(council_models, LAMBDA mo : mo \in X)

\* the entries an ask on an empty cache commits: a stage-1 answer per model
\* that answered, a judgement per judge that was valid
FirstAskCaches ==
    {{}} \cup
    {{Stage1Key(mo) : mo \in X} \cup {Stage2Key(j, Stage1ResultsOf(X)) : j \in J} :
        X \in SUBSET {council_models[i] : i \in 1..NumCouncil} \ {{}},
        J \in SUBSET {judge_models[i] : i \in 1..NumJudges}}

SecondAskInit ==
    /\ ClientParked
    /\ BudgetParked
    /\ GuardParked
    /\ PureParked
    /\ runtime = "mcp"
    /\ tool = "ask"
    /\ budget \in {NoBudget, [present |-> TRUE, max_total_tokens |-> MaxRunCap,
                                max_total_cost_usd |-> None]}
    /\ firstMsg = FALSE
    /\ reqIter = 1
    /\ maxIter = _clamp_max_iterations(reqIter)
    /\ faultCap = MaxFaults
    /\ judges = judge_models
    /\ cacheC \in FirstAskCaches
    /\ RunFresh

AskNext ==
    \/ RuntimeStart
    \/ PresentKey
    \/ ResolveKey
    \/ PresentConversation
    \/ ConversationLookup
    \/ \E reason \in {"timeout", "cancelled"} : Timeout(reason)
    \/ EscapingException
    \/ StartRun
    \/ AddUserMessage
    \/ Stage1Launch
    \/ Stage1Join
    \/ Stage2Launch
    \/ Stage2Join
    \/ Stage3Launch
    \/ Stage3Join
    \/ AddAssistantMessage
    \/ FinishRun
    \/ BudgetFinish
    \/ ExceptionFinish
    \/ AskReturn
    \/ HandlerException
    \/ \E i \in TaskIds : TaskStart(i)
    \/ \E i \in TaskIds, res \in JudgeResults \cup PlainResults : TaskReturn(i, res)
    \/ \E i \in TaskIds : TaskCheck(i)
    \/ \E i \in TaskIds : TaskStep(i)

SpecSecondAsk == SecondAskInit /\ [][AskNext]_vars

(***************************************************************************)
(* council.pipeline with an upstream that may fail both attempts of a call *)
(***************************************************************************)
MaxRoleFaults == 2

PipelineInit ==
    /\ ClientParked
    /\ BudgetParked
    /\ GuardParked
    /\ PureParked
    /\ runtime = "mcp"
    /\ tool = "pipeline"
    /\ budget \in {NoBudget, [present |-> TRUE, max_total_tokens |-> None,
                                max_total_cost_usd |-> None]}
    /\ firstMsg = FALSE
    /\ reqIter = DefaultIterations
    /\ maxIter = _clamp_max_iterations(reqIter)
    /\ faultCap = MaxRoleFaults
    /\ judges = judge_models
    /\ cacheC = {}
    /\ RunFresh

SpecPipeline == PipelineInit /\ [][LoopNext]_vars

(***************************************************************************)
(* council.ask with an upstream that may fail every council model          *)
(***************************************************************************)
AllFailInit ==
    /\ ClientParked
    /\ BudgetParked
    /\ GuardParked
    /\ PureParked
    /\ runtime = "mcp"
    /\ tool = "ask"
    /\ budget \in {NoBudget, [present |-> TRUE, max_total_tokens |-> MaxRunCap,
                                max_total_cost_usd |-> None]}
    /\ firstMsg = FALSE
    /\ reqIter = 1
    /\ maxIter = _clamp_max_iterations(reqIter)
    /\ faultCap = NumCouncil
    /\ judges = judge_models
    /\ cacheC = {}
    /\ RunFresh

SpecAllFail == AllFailInit /\ [][AskNext]_vars

(***************************************************************************)
(* council.ask in a mode that configures two judge models (mode_config,    *)
(* CouncilRunner.__init__)                                                 *)
(***************************************************************************)
OrderInit ==
    /\ ClientParked
    /\ BudgetParked
    /\ GuardParked
    /\ PureParked
    /\ runtime = "mcp"
    /\ tool = "ask"
    /\ budget \in {NoBudget,
                   [present |-> TRUE, max_total_tokens |-> None, max_total_cost_usd |-> None],
                   [present |-> TRUE, max_total_tokens |-> MaxRunCap,
                    max_total_cost_usd |-> None]}
    /\ firstMsg = FALSE
    /\ reqIter = 1
    /\ maxIter = _clamp_max_iterations(reqIter)
    /\ faultCap = MaxFaults
    /\ judges = JudgeModelNames
    /\ cacheC = {}
    /\ RunFresh

SpecOrder == OrderInit /\ [][AskNext]_vars

(***************************************************************************)
(* A ledger write of one task raises: asyncio.gather without               *)
(* return_exceptions hands the exception to the handler and leaves the     *)
(* other tasks of the fan-out running                                      *)
(***************************************************************************)
\* add_run_step of a council task, record_usage_event of a pipeline role
\* raises; the task ends and the handler goes to its `except Exception`
TaskException(i) ==
    /\ rpc = "running"
    /\ hpc \notin {"x_finish", "x_summary", "b_finish", "b_summary"}
    /\ \/ tasks[i].pc = "step"
       \/ tasks[i].pc = "lock" /\ dbLock = 0
    /\ tasks' = [tasks EXCEPT ![i] = FreeTask]
    /\ hpc' = "x_finish"
    /\ UNCHANGED <<rpc, idx, s1, s2, errors, degraded, pl, runInfoSet, ret>>
    /\ UNCHANGED <<inputVars, dbLock, dbVars, histVars>>
    /\ RunOnly

\* requests whose stages fan out concurrently (no budget), and one with a
\* budget, whose stages run one call at a time
FanOutInit ==
    /\ ClientParked
    /\ BudgetParked
    /\ GuardParked
    /\ PureParked
    /\ runtime = "mcp"
    /\ tool \in {"ask", "pipeline"}
    /\ budget \in {NoBudget, [present |-> TRUE, max_total_tokens |-> MaxRunCap,
                                max_total_cost_usd |-> None]}
    /\ firstMsg = FALSE
    /\ reqIter = DefaultIterations
    /\ maxIter = _clamp_max_iterations(reqIter)
    /\ faultCap = MaxFaults
    /\ judges = judge_models
    /\ cacheC = {}
    /\ RunFresh

FanOutNext ==
    \/ AskNext
    \/ LoopNext
    \/ \E i \in TaskIds : TaskException(i)

SpecFanOut == FanOutInit /\ [][FanOutNext]_vars

(***************************************************************************)
(* The semaphores of the tool runtimes: mcp/runtime.py _get_semaphore and  *)
(* app/tools_runtime.py _get_http_semaphore                                *)
(***************************************************************************)
GuardOnly == UNCHANGED <<clientVars, budgetVars, runVars, pureVars>>

\* limit = max(1, int(config.MCP_MAX_CONCURRENT_CALLS))
EffectiveLimit(v) == Max(1, v)

NeedsNewSemaphoreAlways(rt) == TRUE

\* `if _MCP_SEMAPHORE is None or _MCP_SEMAPHORE_LIMIT != limit`
NeedsNewSemaphore(rt) ==
    sem[rt].gen = 0 \/ sem[rt].limit # EffectiveLimit(cfgLimit[rt])

\* the module state after _get_semaphore() has run
_get_semaphore(rt) ==
    IF NeedsNewSemaphore(rt)
    THEN [gen |-> sem[rt].gen + 1,
          limit |-> EffectiveLimit(cfgLimit[rt]),
          free |-> Append(sem[rt].free, EffectiveLimit(cfgLimit[rt]))]
    ELSE sem[rt]

GuardInit ==
    /\ ClientParked
    /\ PureParked
    /\ BudgetParked
    /\ RunParked
    /\ cfgLimit \in [Runtimes -> 1..MaxLimit]
    /\ sem = [rt \in Runtimes |-> NoSemaphore]
    /\ inv = [i \in InvIds |-> IdleInvocation]
    /\ limitChanges = [rt \in Runtimes |-> 0]

\* the configured limit is changed while the process runs
SetLimit(rt, v) ==
    /\ v # cfgLimit[rt]
    /\ limitChanges[rt] + (IF EffectiveLimit(v) # EffectiveLimit(cfgLimit[rt]) THEN 1 ELSE 0)
          <= MaxLimitChanges
    /\ cfgLimit' = [cfgLimit EXCEPT ![rt] = v]
    /\ limitChanges' = [limitChanges EXCEPT ![rt] =
           @ + (IF EffectiveLimit(v) # EffectiveLimit(cfgLimit[rt]) THEN 1 ELSE 0)]
    /\ UNCHANGED <<sem, inv>>
    /\ GuardOnly

\* a tool call arrives at a runtime: `async with _get_semaphore():` evaluates
\* _get_semaphore() and starts to acquire the semaphore it returned
Invoke(i, rt) ==
    /\ inv[i].pc = "idle"
    /\ sem' = [sem EXCEPT ![rt] = _get_semaphore(rt)]
    /\ inv' = [inv EXCEPT ![i] =
           [pc |-> "wait", rt |-> rt, gen |-> sem'[rt].gen,
            blocked |-> (sem'[rt].free[sem'[rt].gen] = 0)]]
    /\ UNCHANGED <<cfgLimit, limitChanges>>
    /\ GuardOnly

\* the permit is acquired and the handler starts inside asyncio.wait_for
StartHandler(i) ==
    /\ inv[i].pc = "wait"
    /\ sem[inv[i].rt].free[inv[i].gen] > 0
    /\ sem' = [sem EXCEPT ![inv[i].rt].free[inv[i].gen] = @ - 1]
    /\ inv' = [inv EXCEPT ![i].pc = "running"]
    /\ UNCHANGED <<cfgLimit, limitChanges>>
    /\ GuardOnly

\* the handler returns, times out, is cancelled or raises: the `async with`
\* block is left and the permit goes back to the semaphore it came from
FinishHandler(i) ==
    /\ inv[i].pc = "running"
    /\ sem' = [sem EXCEPT ![inv[i].rt].free[inv[i].gen] = @ + 1]
    /\ inv' = [inv EXCEPT ![i].pc = "done"]
    /\ UNCHANGED <<cfgLimit, limitChanges>>
    /\ GuardOnly

GuardNext ==
    \/ \E rt \in Runtimes, v \in 0..MaxLimit : SetLimit(rt, v)
    \/ \E i \in InvIds, rt \in Runtimes : Invoke(i, rt)
    \/ \E i \in InvIds : StartHandler(i)
    \/ \E i \in InvIds : FinishHandler(i)

\* asyncio wakes the waiters of a semaphore in arrival order; a handler ends
\* at the latest by the timeout of asyncio.wait_for
GuardFairness ==
    /\ \A i \in InvIds : SF_vars(StartHandler(i))
    /\ WF_vars(\E i \in InvIds : FinishHandler(i))

SpecGuard == GuardInit /\ [][GuardNext]_vars /\ GuardFairness

Running(rt) == {i \in InvIds : inv[i].pc = "running" /\ inv[i].rt = rt}

\* C12: while the configured limit L of a runtime has not changed, at most L
\* handlers run inside that runtime at a time, each runtime counted on its
\* own; an invocation waiting for a permit starts its handler after a running
\* one has finished.
C12_HandlerConcurrency ==
    /\ [](\A rt \in Runtimes :
             limitChanges[rt] = 0 =>
                 Cardinality(Running(rt)) <= Max(1, cfgLimit[rt]))
    /\ \A i \in InvIds : (inv[i].pc = "wait") ~> (inv[i].pc = "running")

C12_Witness ==
    \E i, j \in InvIds :
        /\ inv[i].pc = "running"
        /\ inv[i].blocked
        /\ inv[j].pc = "done"
        /\ inv[j].rt = inv[i].rt
        /\ limitChanges[inv[i].rt] = 0
        /\ Cardinality(Running(inv[i].rt)) = Max(1, cfgLimit[inv[i].rt])

(***************************************************************************)
(* engine/council.py calculate_aggregate_rankings                          *)
(***************************************************************************)
MaxJudgements == 2
MaxRankLen == 3

\* the labels _build_stage2_prompt gives the stage-1 results, and their models
AggLabels == <<"Response A", "Response B", "Response C">>
AggModels == <<"m1", "m2", "m3">>

\* label_to_model for n stage-1 results
LabelToModel(n) ==
    [l \in {AggLabels[i] : i \in 1..n} |->
        AggModels[CHOOSE i \in 1..n : AggLabels[i] = l]]

\* final_ranking is any list of strings; a judgement of the legacy engine has
\* no "valid" key, which reads as not valid
Rankings == UNION {[1..k -> {AggLabels[i] : i \in 1..Len(AggLabels)}] : k \in 0..MaxRankLen}
Judgements == [valid : BOOLEAN, parsed_ranking : Rankings]

CountedAny(j) == Len(j.parsed_ranking) # 0

\* `if ranking.get("valid") is not True: continue` and `if len(...) == 0`
Counted(j) == j.valid /\ Len(j.parsed_ranking) # 0

\* model_positions[model]: where (judgement, position) the model was appended
Appended(results, l2m, model) ==
    {jp \in (1..Len(results)) \X (1..MaxRankLen) :
        /\ Counted(results[jp[1]])
        /\ jp[2] <= Len(results[jp[1]].parsed_ranking)
        /\ results[jp[1]].parsed_ranking[jp[2]] \in DOMAIN l2m
        /\ l2m[results[jp[1]].parsed_ranking[jp[2]]] = model}

RECURSIVE SumPositions(_)
SumPositions(S) ==
    IF S = {} THEN 0
    ELSE LET jp == CHOOSE x \in S : TRUE IN jp[2] + SumPositions(S \ {jp})

\* round(sum / n, 2) in hundredths; a tie (n a multiple of 8) goes to the even
\* neighbour, as Python rounds a float that is exactly between two
round2(sum, n) ==
    LET q == (100 * sum) \div n
        r == (100 * sum) % n
    IN IF 2 * r < n THEN q
       ELSE IF 2 * r > n THEN q + 1
       ELSE IF q % 2 = 0 THEN q ELSE q + 1

\* the order of model_positions.items(): by first append
FirstAppend(S) ==
    CHOOSE x \in {jp[1] * (MaxRankLen + 1) + jp[2] : jp \in S} :
        \A jp \in S : x <= jp[1] * (MaxRankLen + 1) + jp[2]

RECURSIVE SortedByAverage(_, _)
\* aggregate.sort(key=average_rank): a stable sort of the entries E, whose
\* order before the sort is given by `first`
SortedByAverage(E, first) ==
    IF E = {} THEN << >>
    ELSE LET e == CHOOSE x \in E : \A y \in E :
                     \/ x.average_rank < y.average_rank
                     \/ x.average_rank = y.average_rank /\ first[x.model] <= first[y.model]
         IN <<e>> \o SortedByAverage(E \ {e}, first)

calculate_aggregate_rankings(stage2_results, label_to_model) ==
    LET models == {label_to_model[l] : l \in DOMAIN label_to_model}
        seen == {mo \in models : Appended(stage2_results, label_to_model, mo) # {}}
        entry(mo) ==
            LET S == Appended(stage2_results, label_to_model, mo)
            IN [model |-> mo, average_rank |-> round2(SumPositions(S), Cardinality(S)),
                rankings_count |-> Cardinality(S)]
        first == [mo \in seen |-> FirstAppend(Appended(stage2_results, label_to_model, mo))]
    IN SortedByAverage({entry(mo) : mo \in seen}, first)

AggregateInit ==
    /\ ClientParked
    /\ BudgetParked
    /\ RunParked
    /\ GuardParked
    /\ fnIn \in [stage2_results : UNION {[1..k -> Judgements] : k \in 0..MaxJudgements},
                  label_to_model : {LabelToModel(n) : n \in 2..Len(AggLabels)}]
    /\ fnOut = << >>
    /\ CacheSvcParked

\* stage2 calls calculate_aggregate_rankings(stage2_results, label_to_model)
Aggregate ==
    /\ fnOut = << >>
    /\ fnOut' = <<calculate_aggregate_rankings(fnIn.stage2_results, fnIn.label_to_model)>>
    /\ UNCHANGED <<fnIn, cacheSvcVars, clientVars, budgetVars, runVars, guardVars>>

AggregateNext == Aggregate

SpecAggregate == AggregateInit /\ [][AggregateNext]_vars

\* the rankings a model has a known label in
RankingsWith(mo) ==
    {j \in 1..Len(fnIn.stage2_results) :
        /\ fnIn.stage2_results[j].valid
        /\ \E p \in 1..Len(fnIn.stage2_results[j].parsed_ranking) :
              LET l == fnIn.stage2_results[j].parsed_ranking[p]
              IN l \in DOMAIN fnIn.label_to_model /\ fnIn.label_to_model[l] = mo}

\* the sum of the positions (1-based) of a model over those rankings
RECURSIVE PositionSum(_, _, _)
PositionSum(mo, j, p) ==
    IF j > Len(fnIn.stage2_results) THEN 0
    ELSE IF ~fnIn.stage2_results[j].valid \/ p > Len(fnIn.stage2_results[j].parsed_ranking)
    THEN PositionSum(mo, j + 1, 1)
    ELSE LET l == fnIn.stage2_results[j].parsed_ranking[p]
         IN (IF l \in DOMAIN fnIn.label_to_model /\ fnIn.label_to_model[l] = mo
             THEN p ELSE 0) + PositionSum(mo, j, p + 1)

RECURSIVE PositionCount(_, _, _)
PositionCount(mo, j, p) ==
    IF j > Len(fnIn.stage2_results) THEN 0
    ELSE IF ~fnIn.stage2_results[j].valid \/ p > Len(fnIn.stage2_results[j].parsed_ranking)
    THEN PositionCount(mo, j + 1, 1)
    ELSE LET l == fnIn.stage2_results[j].parsed_ranking[p]
         IN (IF l \in DOMAIN fnIn.label_to_model /\ fnIn.label_to_model[l] = mo
             THEN 1 ELSE 0) + PositionCount(mo, j, p + 1)

AggregateOf == fnOut[1]

\* what both statements of C21 share: one entry per model that has a known
\* label in a judgement with valid = true, no other entry, and the list in
\* ascending order of average_rank
AggregateShape ==
    /\ \A k \in 1..Len(AggregateOf) : RankingsWith(AggregateOf[k].model) # {}
    /\ \A mo \in {AggModels[i] : i \in 1..Len(AggModels)} :
          RankingsWith(mo) # {} => \E k \in 1..Len(AggregateOf) : AggregateOf[k].model = mo
    /\ \A k, l \in 1..Len(AggregateOf) :
          /\ (k < l => AggregateOf[k].average_rank <= AggregateOf[l].average_rank)
          /\ (k # l => AggregateOf[k].model # AggregateOf[l].model)

\* C21 as stated: calculate_aggregate_rankings uses only judgements with
\* valid = true and a non-empty parsed_ranking, ignores labels missing from
\* label_to_model, gives each model the mean of its 1-based positions
\* (average_rank, here in hundredths) and the number of rankings it appears
\* in, and returns the list sorted by ascending average rank.
C21_AsStated ==
    fnOut # << >> =>
        /\ AggregateShape
        /\ \A k \in 1..Len(AggregateOf) :
              LET e == AggregateOf[k]
              IN /\ e.rankings_count = Cardinality(RankingsWith(e.model))
                 /\ e.average_rank * e.rankings_count = 100 * PositionSum(e.model, 1, 1)

\* C21, amended: as above, but each model gets the mean of the positions at
\* which its labels occur rounded to two decimals, and rankings_count is the
\* number of those occurrences (a label repeated in one ranking counts twice).
C21_AggregateRankings ==
    fnOut # << >> =>
        /\ AggregateShape
        /\ \A k \in 1..Len(AggregateOf) :
              LET e == AggregateOf[k]
                  n == PositionCount(e.model, 1, 1)
                  s == PositionSum(e.model, 1, 1)
              IN /\ e.rankings_count = n
                 /\ 2 * (100 * s - e.average_rank * n) <= n
                 /\ 2 * (e.average_rank * n - 100 * s) <= n

\* the rankings [A,B,C] and [B,A,C], and an unknown label ignored elsewhere
C21_Witness ==
    /\ fnOut # << >>
    /\ fnIn.stage2_results =
          <<[valid |-> TRUE, parsed_ranking |-> <<"Response A", "Response B", "Response C">>],
            [valid |-> TRUE, parsed_ranking |-> <<"Response B", "Response A", "Response C">>]>>
    /\ fnIn.label_to_model = LabelToModel(3)
    /\ AggregateOf = <<[model |-> "m1", average_rank |-> 150, rankings_count |-> 2],
                       [model |-> "m2", average_rank |-> 150, rankings_count |-> 2],
                       [model |-> "m3", average_rank |-> 300, rankings_count |-> 2]>>

(***************************************************************************)
(* engine/openrouter.py query_model, as far as the usage of an attempt     *)
(* goes, and services/usage.py UsageService.record_usage_event             *)
(***************************************************************************)
UsageKeys == {"prompt_tokens", "completion_tokens", "total_tokens"}

\* the JSON objects a provider may send as "usage": any of the keys, each null
\* or a count
UsageObjects == UNION {[K -> {None} \cup (0..MaxTok)] : K \in SUBSET UsageKeys}

\* how an attempt ends: within the auth cooldown, with 401/403, with another
\* status >= 400 or an exception when the retries are spent, or with a body,
\* whose "usage" is absent, no object, or an object
UpstreamResponses ==
    {[outcome |-> o, usage_kind |-> "absent", fields |-> << >>] :
        o \in {"cooldown", "auth", "http_error", "exception"}}
    \cup {[outcome |-> "ok", usage_kind |-> "absent", fields |-> << >>],
          [outcome |-> "ok", usage_kind |-> "no_object", fields |-> << >>]}
    \cup {[outcome |-> "ok", usage_kind |-> "object", fields |-> f] : f \in UsageObjects}

\* OpenRouterResult: usage and error_text of the result of query_model
\* (error_text "" for None); `data.get("usage") if isinstance(..., dict) else None`
OpenRouterResult(resp) ==
    [ok |-> resp.outcome = "ok",
     usage |-> [is_dict |-> resp.outcome = "ok" /\ resp.usage_kind = "object",
                fields |-> IF resp.outcome = "ok" /\ resp.usage_kind = "object"
                           THEN resp.fields ELSE << >>],
     error_text |-> IF resp.outcome = "ok" THEN "" ELSE resp.outcome]

\* usage.get(k), u being the argument `usage`
UsageGet(u, k) == IF k \in DOMAIN u.fields THEN u.fields[k] ELSE None

record_usage_event_on_error(u, error_text) ==
    LET given == u.is_dict /\ DOMAIN u.fields # {}
    IN [prompt_tokens |-> IF given THEN UsageGet(u, "prompt_tokens") ELSE None,
        completion_tokens |-> IF given THEN UsageGet(u, "completion_tokens") ELSE None,
        total_tokens |-> IF given THEN UsageGet(u, "total_tokens") ELSE None,
        usage_missing |-> error_text # ""]

\* the token fields and usage_missing of the UsageEvent; `if usage and
\* isinstance(usage, dict)` is false for None and for an empty dict
record_usage_event(u, error_text) ==
    LET given == u.is_dict /\ DOMAIN u.fields # {}
    IN [prompt_tokens |-> IF given THEN UsageGet(u, "prompt_tokens") ELSE None,
        completion_tokens |-> IF given THEN UsageGet(u, "completion_tokens") ELSE None,
        total_tokens |-> IF given THEN UsageGet(u, "total_tokens") ELSE None,
        usage_missing |-> (~given \/ error_text # "")]

UsageInit ==
    /\ ClientParked
    /\ BudgetParked
    /\ RunParked
    /\ GuardParked
    /\ fnIn \in UpstreamResponses
    /\ fnOut = << >>
    /\ CacheSvcParked

\* query_model returns the result of the attempt
QueryModelReturns ==
    /\ fnIn \in UpstreamResponses
    /\ fnOut = << >>
    /\ fnOut' = <<OpenRouterResult(fnIn)>>
    /\ UNCHANGED <<fnIn, cacheSvcVars, clientVars, budgetVars, runVars, guardVars>>

\* the runner records the attempt: record_usage_event(..., result.usage,
\* error_text=result.error_text)
RecordUsageEvent ==
    /\ fnIn \in UpstreamResponses
    /\ Len(fnOut) = 1
    /\ fnOut' = Append(fnOut, record_usage_event(fnOut[1].usage, fnOut[1].error_text))
    /\ UNCHANGED <<fnIn, cacheSvcVars, clientVars, budgetVars, runVars, guardVars>>

UsageNext == QueryModelReturns \/ RecordUsageEvent

SpecUsage == UsageInit /\ [][UsageNext]_vars

\* the provider returned no usage block: no "usage" in the body, or one that
\* is no object or has no field
NoUsageBlock == fnIn.usage_kind # "object" \/ fnIn.fields = << >>

\* the attempt errored: query_model returned without a response body
AttemptErrored == fnIn.outcome # "ok"

\* C23: a UsageEvent with usage_missing = true has prompt_tokens,
\* completion_tokens and total_tokens all null, and usage_missing is true
\* exactly when the provider returned no usage block or the attempt errored.
C23_UsageMissing ==
    (fnIn \in UpstreamResponses /\ Len(fnOut) = 2) =>
        LET ev == fnOut[2]
        IN /\ ev.usage_missing =>
                 /\ ev.prompt_tokens = None
                 /\ ev.completion_tokens = None
                 /\ ev.total_tokens = None
           /\ ev.usage_missing <=> (NoUsageBlock \/ AttemptErrored)

\* a response with a usage block recorded with its tokens, not missing
C23_Witness ==
    /\ fnIn \in UpstreamResponses /\ Len(fnOut) = 2
    /\ ~NoUsageBlock /\ ~AttemptErrored
    /\ ~fnOut[2].usage_missing /\ fnOut[2].total_tokens = MaxTok

(***************************************************************************)
(* The scope-path check of the pipeline; a string is the sequence of its   *)
(* characters                                                              *)
(***************************************************************************)
MaxInScope == 2
MaxPatchScope == 2

\* entries a scope contract or a patch_scope may hold
PathSamples ==
    { <<"a", ".", "m", "d">>,
      <<" ", ".", "/", "a", ".", "m", "d">>,
      <<"c", ".", "m", "d">>,
      <<"b", "/", "c">>,
      <<"b", "/", "/", "c">>,
      <<".", "\\", "b", "\\", "c">>,
      <<"x", ":", "/", "/", "y">>,
      <<"d">>,
      <<" ">>,
      <<".", "/">> }

RECURSIVE lstrip(_)
lstrip(v) == IF v # << >> /\ Head(v) = " " THEN lstrip(Tail(v)) ELSE v

RECURSIVE rstrip(_)
rstrip(v) == IF v # << >> /\ v[Len(v)] = " " THEN rstrip(SubSeq(v, 1, Len(v) - 1)) ELSE v

\* str.strip()
strip(v) == rstrip(lstrip(v))

startswith(v, prefix) == Len(v) >= Len(prefix) /\ SubSeq(v, 1, Len(prefix)) = prefix

endswith(v, suffix) ==
    Len(v) >= Len(suffix) /\ SubSeq(v, Len(v) - Len(suffix) + 1, Len(v)) = suffix

\* `part in v`
contains(v, part) ==
    \E i \in 1..Len(v) : i + Len(part) - 1 <= Len(v) /\ SubSeq(v, i, i + Len(part) - 1) = part

\* v.replace("\\", "/")
replace_backslash(v) == [i \in 1..Len(v) |-> IF v[i] = "\\" THEN "/" ELSE v[i]]

RECURSIVE replace_slashes(_)
\* v.replace("//", "/"): the occurrences from the left, not overlapping
replace_slashes(v) ==
    IF v = << >> THEN << >>
    ELSE IF startswith(v, <<"/", "/">>) THEN <<"/">> \o replace_slashes(SubSeq(v, 3, Len(v)))
    ELSE <<Head(v)>> \o replace_slashes(Tail(v))

RECURSIVE strip_dot_slash(_)
\* while v.startswith("./"): v = v[2:]
strip_dot_slash(v) ==
    IF startswith(v, <<".", "/">>) THEN strip_dot_slash(SubSeq(v, 3, Len(v))) ELSE v

RECURSIVE collapse_slashes(_)
\* while "//" in v: v = v.replace("//", "/")
collapse_slashes(v) ==
    IF contains(v, <<"/", "/">>) THEN collapse_slashes(replace_slashes(v)) ELSE v

_normalize_path(value) ==
    collapse_slashes(strip_dot_slash(replace_backslash(strip(value))))

PathSuffixes ==
    { <<".", "p", "y">>, <<".", "t", "s">>, <<".", "t", "s", "x">>, <<".", "m", "d">>,
      <<".", "y", "m", "l">>, <<".", "y", "a", "m", "l">>, <<".", "j", "s", "o", "n">> }

_looks_like_file_path(value) ==
    LET v == strip(value)
    IN IF contains(v, <<":", "/", "/">>) THEN FALSE
       ELSE IF contains(v, <<"/">>) THEN TRUE
       ELSE \E suffix \in PathSuffixes : endswith(v, suffix)

\* [f(e) for e in s]
MapSeq(f(_), s) == [i \in 1..Len(s) |-> f(s[i])]

NotBlank(p) == strip(p) # << >>

PatchScopeMissing == << <<"(patch_scope_missing)">> >>

\* _enforce_scope_paths without `if not patch`
_enforce_scope_paths_subset(in_scope, patch_scope) ==
    LET allowed == SelectSeq(in_scope, _looks_like_file_path)
        allowed_set == {_normalize_path(allowed[i]) :
                           i \in {j \in 1..Len(allowed) : NotBlank(allowed[j])}}
        patch == MapSeq(_normalize_path, SelectSeq(patch_scope, NotBlank))
        Outside(p) == p \notin allowed_set
    IN IF allowed = << >> THEN << >>
       ELSE SelectSeq(patch, Outside)

\* _enforce_scope_paths on the strings of sc.in_scope and impl.patch_scope
_enforce_scope_paths_of(in_scope, patch_scope) ==
    LET allowed == SelectSeq(in_scope, _looks_like_file_path)
        allowed_set == {_normalize_path(allowed[i]) :
                           i \in {j \in 1..Len(allowed) : NotBlank(allowed[j])}}
        patch == MapSeq(_normalize_path, SelectSeq(patch_scope, NotBlank))
        Outside(p) == p \notin allowed_set
    IN IF allowed = << >> THEN << >>
       ELSE IF patch = << >> THEN PatchScopeMissing
       ELSE SelectSeq(patch, Outside)

SeqsUpTo(S, n) == UNION {[1..k -> S] : k \in 0..n}

ScopeInputs ==
    [in_scope : SeqsUpTo(PathSamples, MaxInScope),
     patch_scope : SeqsUpTo(PathSamples, MaxPatchScope)]

ScopeInit ==
    /\ ClientParked
    /\ BudgetParked
    /\ RunParked
    /\ GuardParked
    /\ fnIn \in ScopeInputs
    /\ fnOut = << >>
    /\ CacheSvcParked

\* violations = _enforce_scope_paths(scope_contract, implementer)
EnforceScopePaths ==
    /\ fnIn \in ScopeInputs
    /\ fnOut = << >>
    /\ fnOut' = <<_enforce_scope_paths_of(fnIn.in_scope, fnIn.patch_scope)>>
    /\ UNCHANGED <<fnIn, cacheSvcVars, clientVars, budgetVars, runVars, guardVars>>

ScopeNext == EnforceScopePaths

SpecScope == ScopeInit /\ [][ScopeNext]_vars

\* the normalized path-like entries of in_scope
NormalizedInScope ==
    {_normalize_path(fnIn.in_scope[i]) :
        i \in {j \in 1..Len(fnIn.in_scope) : _looks_like_file_path(fnIn.in_scope[j])}}

\* the normalized entries of patch_scope, blank entries being no paths
NormalizedPatchScope ==
    {_normalize_path(fnIn.patch_scope[i]) :
        i \in {j \in 1..Len(fnIn.patch_scope) : NotBlank(fnIn.patch_scope[j])}}

HasPathLike == \E i \in 1..Len(fnIn.in_scope) : _looks_like_file_path(fnIn.in_scope[i])

ScopeChecked == fnIn \in ScopeInputs /\ Len(fnOut) = 1

\* C31: the scope-path check reports a violation exactly when in_scope has a
\* path-like entry and the normalized patch_scope is empty or has a path that
\* is not among the normalized path-like in_scope entries; with no path-like
\* entry it reports none; what it reports is a function of the two normalized
\* path sets.
C31_ScopePaths ==
    ScopeChecked =>
        /\ fnOut[1] # << >> <=>
              /\ HasPathLike
              /\ \/ NormalizedPatchScope = {}
                 \/ \E p \in NormalizedPatchScope : p \notin NormalizedInScope
        /\ ~HasPathLike => fnOut[1] = << >>
        /\ {fnOut[1][i] : i \in 1..Len(fnOut[1])} =
              IF NormalizedInScope = {} THEN {}
              ELSE IF NormalizedPatchScope = {} THEN {PatchScopeMissing[1]}
              ELSE NormalizedPatchScope \ NormalizedInScope

\* a patch_scope of blank entries only under a path-like in_scope
C31_Witness ==
    /\ ScopeChecked /\ HasPathLike
    /\ fnIn.patch_scope # << >> /\ NormalizedPatchScope = {}
    /\ fnOut[1] = PatchScopeMissing

\* entries written differently that normalize to the same path: no violation
C31_WitnessNormalized ==
    /\ ScopeChecked /\ HasPathLike
    /\ fnIn.patch_scope # << >> /\ fnOut[1] = << >>
    /\ \A i \in 1..Len(fnIn.patch_scope) : \A j \in 1..Len(fnIn.in_scope) :
          fnIn.patch_scope[i] # fnIn.in_scope[j]

(***************************************************************************)
(* services/cache.py: CacheService over the CacheEntry table               *)
(***************************************************************************)
MaxUtc == 3
NumCacheKeys == 1
MaxTtl == 2

CacheKeys == 1..NumCacheKeys
CacheValues == {"v1", "v2"}

\* ttl_seconds of set_json, COUNCIL_CACHE_TTL_SECONDS_INT
Ttls == {None} \cup 0..MaxTtl

NoEntry == [present |-> FALSE, value_json |-> "", created_at |-> 0, expires_at |-> None]

NoValue == ""

\* the configuration: COUNCIL_CACHE_ENABLED, COUNCIL_CACHE_TTL_SECONDS_INT
CacheConfigs == [enabled : BOOLEAN, default_ttl : {None, 0, 1}]

ExpiredAfter(entry, t) == entry.expires_at # None /\ entry.expires_at < t

\* `entry.expires_at and entry.expires_at <= datetime.utcnow()`
Expired(entry, t) == entry.expires_at # None /\ entry.expires_at <= t

\* expires_at of set_json: `utcnow() + timedelta(seconds=ttl) if ttl else None`
ExpiresAt(ttl_seconds, default_ttl, t) ==
    LET ttl == IF ttl_seconds # None THEN ttl_seconds ELSE default_ttl
    IN IF ttl # None /\ ttl # 0 THEN t + ttl ELSE None

CacheSvcInit ==
    /\ ClientParked
    /\ BudgetParked
    /\ RunParked
    /\ GuardParked
    /\ fnIn \in CacheConfigs
    /\ fnOut = << >>
    /\ utcnow = 0
    /\ cacheRows = [k \in CacheKeys |-> NoEntry]
    /\ lastSet = [k \in CacheKeys |-> NoEntry]
    /\ lastOp = [op |-> "none", k |-> 0, at |-> 0, ttl |-> None, returned |-> NoValue]

CacheSvcOnly == UNCHANGED <<fnIn, fnOut, clientVars, budgetVars, runVars, guardVars>>

\* time passes between two calls of the service
UtcTick ==
    /\ fnIn \in CacheConfigs
    /\ utcnow < MaxUtc
    /\ utcnow' = utcnow + 1
    /\ UNCHANGED <<cacheRows, lastSet, lastOp>>
    /\ CacheSvcOnly

get_json(k) ==
    /\ fnIn \in CacheConfigs
    /\ LET entry == cacheRows[k]
           hit == fnIn.enabled /\ entry.present /\ ~Expired(entry, utcnow)
       IN /\ cacheRows' = IF fnIn.enabled /\ entry.present /\ Expired(entry, utcnow)
                         THEN [cacheRows EXCEPT ![k] = NoEntry]
                         ELSE cacheRows
          /\ lastOp' = [op |-> "get", k |-> k, at |-> utcnow, ttl |-> None,
                         returned |-> IF hit THEN entry.value_json ELSE NoValue]
    /\ UNCHANGED <<utcnow, lastSet>>
    /\ CacheSvcOnly

set_json(k, value_json, ttl_seconds) ==
    /\ fnIn \in CacheConfigs
    /\ LET row == [present |-> TRUE, value_json |-> value_json, created_at |-> utcnow,
                   expires_at |-> ExpiresAt(ttl_seconds, fnIn.default_ttl, utcnow)]
       IN IF fnIn.enabled
          THEN /\ cacheRows' = [cacheRows EXCEPT ![k] = row]
               /\ lastSet' = [lastSet EXCEPT ![k] = row]
          ELSE UNCHANGED <<cacheRows, lastSet>>
    /\ lastOp' = [op |-> "set", k |-> k, at |-> utcnow, ttl |-> ttl_seconds, returned |-> NoValue]
    /\ UNCHANGED utcnow
    /\ CacheSvcOnly

CacheSvcNext ==
    \/ UtcTick
    \/ \E k \in CacheKeys : get_json(k)
    \/ \E k \in CacheKeys, v \in CacheValues, ttl \in Ttls : set_json(k, v, ttl)

SpecCacheSvc == CacheSvcInit /\ [][CacheSvcNext]_vars

CacheSvcActive == fnIn \in CacheConfigs /\ lastOp # << >>

\* a get_json has just returned
JustGot == CacheSvcActive /\ lastOp.op = "get"

\* a set_json has just returned
JustSet == CacheSvcActive /\ lastOp.op = "set"

\* C33: get_json returns the value last set for the key while now is before
\* its expires_at, or whenever the entry has no expiry, and returns nothing and
\* deletes the entry once now has reached expires_at; set_json on an existing
\* key replaces value, created_at and expires_at; a ttl of None means no
\* expiration unless a default TTL is configured; with caching disabled get
\* returns nothing and set stores nothing.
C33_CacheService ==
    /\ JustGot /\ fnIn.enabled =>
          LET was == lastSet[lastOp.k]
          IN IF ~was.present THEN lastOp.returned = NoValue
             ELSE IF was.expires_at = None \/ lastOp.at < was.expires_at
             THEN lastOp.returned = was.value_json /\ cacheRows[lastOp.k] = was
             ELSE lastOp.returned = NoValue /\ ~cacheRows[lastOp.k].present
    /\ JustSet /\ fnIn.enabled =>
          LET row == cacheRows[lastOp.k]
          IN /\ row.present /\ row.created_at = lastOp.at /\ row = lastSet[lastOp.k]
             /\ lastOp.ttl = None /\ fnIn.default_ttl = None => row.expires_at = None
             /\ lastOp.ttl = None /\ fnIn.default_ttl \notin {None, 0} =>
                   row.expires_at = lastOp.at + fnIn.default_ttl
             /\ lastOp.ttl \notin {None, 0} => row.expires_at = lastOp.at + lastOp.ttl
    /\ CacheSvcActive /\ ~fnIn.enabled =>
          /\ lastOp.returned = NoValue
          /\ \A k \in CacheKeys : ~cacheRows[k].present

\* set_json on an existing key replaces value, created_at and expires_at
C33_Upsert ==
    [][\A k \in CacheKeys, v \in CacheValues, ttl \in Ttls :
          set_json(k, v, ttl) /\ fnIn.enabled /\ cacheRows[k].present =>
              /\ cacheRows'[k].value_json = v
              /\ cacheRows'[k].created_at = utcnow
              /\ cacheRows'[k].expires_at = ExpiresAt(ttl, fnIn.default_ttl, utcnow)]_vars

\* a get at the very instant of expires_at: nothing returned, the row deleted
C33_Witness ==
    /\ JustGot /\ fnIn.enabled
    /\ lastSet[lastOp.k].present /\ lastSet[lastOp.k].expires_at = lastOp.at
    /\ lastSet[lastOp.k].created_at > 0
    /\ lastOp.returned = NoValue /\ ~cacheRows[lastOp.k].present

\* a get long after a set with ttl None and no default: the value is returned
C33_WitnessForever ==
    /\ JustGot /\ fnIn.enabled /\ fnIn.default_ttl = None
    /\ lastOp.at = MaxUtc /\ lastSet[lastOp.k].created_at = 0
    /\ lastOp.returned = "v2"

(***************************************************************************)
(* The stage-1 cache key of two runs                                       *)
(***************************************************************************)
\* the council model lists of the modes
ModelLists == {<<"m1", "m2">>, <<"m1", "m3">>, <<"m2", "m3">>}

Queries == {"q1", "q2"}

\* a run of council.ask: the list mode_config gave it, the council model
\* stage1 is asking and the prompt
KeyRuns ==
    {r \in [council_models : ModelLists, model : {"m1", "m2", "m3"}, user_query : Queries] :
        \E i \in 1..Len(r.council_models) : r.council_models[i] = r.model}

\* config.COUNCIL_MODELS and two runs
CacheKeyInputs == [COUNCIL_MODELS : ModelLists, first : KeyRuns, second : KeyRuns]

\* the list is the module-level COUNCIL_MODELS, not self._council_models
_stage1_cache_parts(model, user_query) ==
    [stage |-> "stage1", model |-> model, user_query |-> user_query,
     council_models |-> fnIn.COUNCIL_MODELS]

\* "council:" + sha256 of the canonical JSON of the parts: one key per parts
make_cache_key(parts) == <<"council:", parts>>

CacheKeyInit ==
    /\ ClientParked
    /\ BudgetParked
    /\ RunParked
    /\ GuardParked
    /\ CacheSvcParked
    /\ fnIn \in CacheKeyInputs
    /\ fnOut = << >>

\* cache_key = make_cache_key(_stage1_cache_parts(model, user_query)) in _one
\* of the first run, then of the second
Stage1CacheKey ==
    /\ fnIn \in CacheKeyInputs
    /\ Len(fnOut) < 2
    /\ LET r == IF fnOut = << >> THEN fnIn.first ELSE fnIn.second
       IN fnOut' = Append(fnOut, make_cache_key(_stage1_cache_parts(r.model, r.user_query)))
    /\ UNCHANGED <<fnIn, cacheSvcVars, clientVars, budgetVars, runVars, guardVars>>

CacheKeyNext == Stage1CacheKey

SpecCacheKey == CacheKeyInit /\ [][CacheKeyNext]_vars

BothKeyed == fnIn \in CacheKeyInputs /\ Len(fnOut) = 2

\* C34: the stage-1 cache key is derived from the stage, the model, the user
\* query and the council model list the run actually uses: two runs asking
\* the same model the same query under different lists use different keys,
\* and identical parts give the identical key.
C34_KeyPerCouncilList ==
    BothKeyed =>
        (fnOut[1] = fnOut[2] <=>
            /\ fnIn.first.model = fnIn.second.model
            /\ fnIn.first.user_query = fnIn.second.user_query
            /\ fnIn.first.council_models = fnIn.second.council_models)

\* what the code does: the keys of one process agree exactly when model and
\* query agree, whatever the lists of the two runs
C34_KeyIgnoresRunList ==
    BothKeyed =>
        (fnOut[1] = fnOut[2] <=>
            /\ fnIn.first.model = fnIn.second.model
            /\ fnIn.first.user_query = fnIn.second.user_query)

\* two runs under different lists got the same key
C34_SharedKey ==
    /\ BothKeyed /\ fnOut[1] = fnOut[2]
    /\ fnIn.first.council_models # fnIn.second.council_models

\* a call past the cooldown test moves on: its next step issues a request
PastTheTest ==
    \A c \in CallIds :
        call[c].pc \in {"wait", "sleep"} /\ call'[c] # call[c] =>
            /\ call'[c].pc = "inflight"
            /\ call'[c].requests = call[c].requests + 1
            /\ call'[c].posted_in_cooldown = CooldownActive(now)

\* the call is waiting for a permit or sleeping in backoff during a cooldown
HeldUpInCooldown(c) == call[c].pc \in {"wait", "sleep"} /\ CooldownActive(now)

\* C37: the auth cooldown is tested only on entry to query_model, before the
\* permit is acquired: a call that entered before another call's 401/403
\* arrived and was waiting for a permit or sleeping in backoff still issues its
\* HTTP request afterwards, although the cooldown is then active.
C37_CooldownTestedOnEntry ==
    /\ [](\A c \in CallIds :
             call[c].result.error = "cooldown" => call[c].requests = 0 /\ ~call[c].held)
    /\ [][PastTheTest]_vars
    /\ \A c \in CallIds :
          HeldUpInCooldown(c) ~> (call[c].pc = "inflight" /\ call[c].posted_in_cooldown)

\* a request issued during the cooldown that another call's 401/403 started,
\* by a call that had been waiting for the permit
C37_Witness ==
    \E c, d \in CallIds :
        /\ c # d
        /\ call[d].pc = "done" /\ call[d].result.error = "auth"
        /\ call[c].pc = "inflight" /\ call[c].posted_in_cooldown
        /\ call[c].http_attempt = 0 /\ CooldownActive(now)

\* the same after a backoff sleep
C37_WitnessBackoff ==
    \E c \in CallIds :
        /\ call[c].pc = "inflight" /\ call[c].posted_in_cooldown
        /\ call[c].http_attempt > 0 /\ call[c].window = "none"

(***************************************************************************)
(* Properties of a run                                                     *)
(***************************************************************************)
EventsOf(log, call_id, attempt) ==
    {k \in 1..Len(log) : log[k].call_id = call_id /\ log[k].attempt = attempt}

JsonRoleSites == {"stage2"} \cup PipelineSites

\* C1: when the invocation times out or is cancelled after the handler has
\* created and committed its run, the runtime marks that run failed with a
\* non-null ended_at: no created run is still running once the runtime has
\* returned.
C1_NoRunLeftRunning ==
    (rpc = "returned" /\ runC.exists) =>
        (runC.status # "running" /\ runC.ended_at # None)

\* C13: when the handler times out or is cancelled after it has stored its run
\* id in run_info and committed, the runtime rolls back what was flushed after
\* that commit (the user message is gone), marks the run failed with a
\* non-null ended_at and commits that, and returns a degraded envelope whose
\* errors are ["timeout"] or ["cancelled"] respectively.
C13_RollbackThenFailed ==
    (/\ rpc = "returned" /\ cause \in {"timeout", "cancelled"}
     /\ runInfoSet /\ runC.exists) =>
        /\ msgs = msgsC /\ msgs = 0
        /\ usage = << >> /\ steps = << >> /\ cache = cacheC
        /\ run = runC
        /\ runC.status = "failed" /\ runC.ended_at # None
        /\ ret.by = "runtime" /\ ret.degraded
        /\ ret.errors = <<Err(cause, "")>>

C13_Witness ==
    /\ rpc = "returned" /\ cause = "cancelled"
    /\ runInfoSet /\ runC.exists
    /\ tool = "test_double" /\ idx = 1
    /\ runC.status = "failed"

\* C14: the degraded envelope a tool runtime returns carries exactly one
\* reason: "timeout", "cancelled", "invalid_input" or "input_too_large", and
\* "internal_error" for any other exception, in the MCP runtime and in the HTTP
\* tool runtime alike.
C14_OneReason ==
    (rpc = "returned" /\ ret.by = "runtime") =>
        /\ ret.degraded
        /\ ret.errors = <<Err(IF cause = "exception" THEN "internal_error" ELSE cause, "")>>

Has(seq, e) == \E k \in 1..Len(seq) : seq[k] = e

\* the logical gate-model calls issued so far
GateCalls == {calls[k].lc : k \in {j \in 1..Len(calls) : calls[j].site = "gate"}}

DeterministicGateSteps ==
    {k \in 1..Len(steps) : steps[k].role = "gate" /\ steps[k].model = "deterministic"}

\* C15: when in_scope names file paths and the patch_scope of an implementer
\* output (the first one or a revision) is empty or has a path outside them,
\* the pipeline ends with gate_verdict FAIL and scope_violation in errors, the
\* gate model is not called for that output, and one gate run step with
\* model "deterministic" is recorded.
C15_ScopeViolationFails ==
    /\ [][(/\ hpc \in {"implementer_wait", "revise_wait"}
           /\ hpc' \in {"scope_step", "gate", "p_finish"}
           /\ tasks[1].out # "none" /\ pl.paths
           /\ tasks[1].data \in {OutsideScope, MissingScope})
          => (/\ hpc' = "scope_step"
              /\ Has(pl'.errors, Err("scope_violation", ""))
              /\ pl'.verdict = "FAIL")]_vars
    /\ [](Has(pl.errors, Err("scope_violation", "")) =>
            /\ pl.verdict = "FAIL"
            /\ hpc \notin {"gate", "gate_wait", "revise", "revise_wait"}
            /\ Cardinality(GateCalls) = idx
            /\ (rpc = "running" /\ hpc # "scope_step"
                    => Cardinality(DeterministicGateSteps) = 1)
            /\ (ret.by = "handler" =>
                    /\ ret.gate_verdict = "FAIL"
                    /\ Has(ret.errors, Err("scope_violation", ""))
                    /\ Cardinality(DeterministicGateSteps) = 1))

\* a revision with an empty patch_scope, after one gate call, has ended the run
C15_Witness ==
    /\ ret.by = "handler" /\ tool = "pipeline"
    /\ pl.must_fix = {"(patch_scope_missing)"}
    /\ idx = 1 /\ Cardinality(GateCalls) = 1
    /\ Has(ret.errors, Err("scope_violation", ""))

ImplementerCalls ==
    {calls[k].lc : k \in {j \in 1..Len(calls) : calls[j].site = "implementer"}}

C17_TerminalStatus ==
    (ret.by = "handler" /\ run.exists /\ tool \in {"ask", "pipeline"}) =>
        /\ run.status \in {"succeeded", "failed"}
        /\ run.status = "succeeded" <=>
               IF tool = "ask" THEN ret.errors = << >> ELSE ret.gate_verdict = "PASS"
        /\ runC = run

\* council.ask has returned an answer together with errors
C17_Witness ==
    /\ ret.by = "handler" /\ tool = "ask" /\ run.exists
    /\ ret.errors # << >> /\ ret.final_answer # ""
    /\ run.status = "failed"

\* C18: every council.ask or council.pipeline invocation that created a run
\* has appended an assistant message to the conversation when it returns (the
\* conversation then holds the user message and the assistant message), on
\* every path: success, degradation, budget abort and internal error.
C18_AssistantMessageAlways ==
    (ret.by = "handler" /\ run.exists /\ tool \in {"ask", "pipeline"}) => msgs = 2

PreRunRefusals ==
    {<<Err(e, "")>> : e \in {"auth_required", "quota_exceeded", "invalid_input",
                             "input_too_large"}}

\* C19: a request refused with auth_required, quota_exceeded, invalid_input
\* or input_too_large has created no run and issued no upstream model call;
\* the key resolution refuses with quota_exceeded exactly when the key is an
\* active one with a positive monthly_token_cap and the tokens used this
\* month plus 1 exceed the cap.
C19_PreRunRefusal ==
    /\ [](ret.errors \in PreRunRefusals =>
            /\ ret.degraded
            /\ ~run.exists /\ ~runC.exists /\ endCount = 0
            /\ calls = << >> /\ launches = 0 /\ usageLog = << >>)
    /\ [][(hpc = "auth" /\ hpc' \notin {"auth", "stopped"}) =>
            (ret'.errors = <<Err("quota_exceeded", "")>>
               <=> (/\ apiKey.given /\ apiKey.active
                    /\ apiKey.monthly_token_cap > 0
                    /\ apiKey.used + 1 > apiKey.monthly_token_cap))]_vars

\* the key of tests/test_c3_readiness.py: cap 1, one token used
C19_Witness ==
    /\ ret.errors = <<Err("quota_exceeded", "")>>
    /\ apiKey.monthly_token_cap = 1 /\ apiKey.used = 1
    /\ rpc = "returned" /\ ~run.exists

\* the account of a key: K.account_id if set, otherwise K.id
AccountOf(account_id, k) == IF account_id[k] # None THEN account_id[k] ELSE k

\* C20: a stored conversation is visible to the key K of the caller exactly
\* when its owner_key_id is a key of K's account; council.ask and
\* council.pipeline called with a conversation_id that is not visible return
\* errors = ["conversation_not_found"] and degraded = true, having added no
\* message and made no upstream call.
C20_ConversationOwnership ==
    /\ [][(/\ hpc = "lookup" /\ hpc' \notin {"lookup", "stopped"}
           /\ lookup.conversation = "stored" /\ lookup.caller # None) =>
            LET visible == /\ lookup.owner # None
                           /\ AccountOf(lookup.account_id, lookup.owner)
                                = AccountOf(lookup.account_id, lookup.caller)
            IN /\ visible => hpc' = "create"
               /\ ~visible => ret'.errors = <<Err("conversation_not_found", "")>>]_vars
    /\ [](ret.errors = <<Err("conversation_not_found", "")>> =>
            /\ ret.by = "handler" /\ ret.degraded
            /\ msgs = 0 /\ msgsC = 0
            /\ calls = << >> /\ launches = 0
            /\ ~run.exists)

\* a key of another account asked for a stored conversation
C20_Witness ==
    /\ ret.errors = <<Err("conversation_not_found", "")>>
    /\ lookup.conversation = "stored" /\ lookup.caller # None /\ lookup.owner # None
    /\ lookup.owner # lookup.caller
    /\ rpc = "returned"

\* the entries of the cache that the earlier ask left
EarlierEntries == {e \in cacheC : \A k \in 1..Len(cacheWrites) : cacheWrites[k].key # e}

\* no upstream call and no UsageEvent of this ask for the entry
NotAskedAgain(e) ==
    /\ \A k \in 1..Len(calls) : ~(calls[k].site = e.stage /\ calls[k].model = e.model)
    /\ \A k \in 1..Len(usageLog) : usageLog[k].model # e.model

\* the entry was read and its content handed to the stage
Served(e) ==
    /\ \E k \in 1..Len(steps) :
          steps[k] = RunStepOf(e.stage, e.model, 0, FALSE, TRUE)
    /\ e.stage = "stage1" => Has(s1, e.model)

\* C22 as stated: a second council.ask with the same prompt and model
\* configuration makes no upstream call and records no UsageEvent for any
\* stage-1 answer and any valid stage-2 judgement the first one cached.
C22_AsStated == \A e \in EarlierEntries : NotAskedAgain(e)

\* C22, amended: the second ask makes no upstream call and records no
\* UsageEvent for a cached stage-1 answer, and none for a cached judgement
\* as long as its stage-1 results are those the judgement was made for; a
\* run step with cache_hit = true is all that it writes for a served entry.
C22_SecondAskFromCache ==
    /\ \A e \in EarlierEntries :
          (e.stage = "stage1" \/ e.prompt = s1) => NotAskedAgain(e)
    /\ \A k \in 1..Len(steps) :
          steps[k].cache_hit =>
              \E e \in cache : e.stage = steps[k].role /\ e.model = steps[k].model
    /\ hpc \in {"stage3", "stage3_wait", "asst_msg"} /\ s1 # << >> =>
          \A e \in EarlierEntries : (e.stage = "stage1" \/ e.prompt = s1) => Served(e)

\* every model answered and the judge was valid the first time: the second
\* ask reaches the chairman without any call
C22_Witness ==
    /\ hpc = "stage3"
    /\ calls = << >> /\ usageLog = << >>
    /\ s1 = council_models
    /\ \A i \in 1..NumCouncil : Served(Stage1Key(council_models[i]))
    /\ \A i \in 1..NumJudges : Served(Stage2Key(judge_models[i], council_models))
    /\ EarlierEntries = cacheC

\* C24 as stated: the sum of UsageEvent.total_tokens of the run never
\* decreases from one state of the session to the next, the timeout or
\* cancellation cleanup included.
C24_AsStated == [][SumTokens(usage') >= SumTokens(usage)]_vars

\* C24, amended: the sum of UsageEvent.total_tokens of the run never decreases
\* while the handler runs, so between any two of its reads (budget checks,
\* usage summary); the cleanup of the runtime after a timeout, a cancellation
\* or an escaping exception rolls the uncommitted events back, and a read
\* after it finds no event of the run.
C24_SumMonotone ==
    [][/\ hpc' # "stopped" => SumTokens(usage') >= SumTokens(usage)
       /\ hpc' = "stopped" => usage' = << >>]_vars

\* a budget check has read a sum, later events were added, and the usage
\* summary of the returning handler reads a greater one
C24_Witness ==
    /\ hpc = "returned" /\ ret.by = "handler"
    /\ budget.present
    /\ \E k \in 1..Len(calls) : calls[k].checked
    /\ SumTokens(usage) >= 2

\* the run row is committed with status running before the first call
RunCommittedBeforeCalls == calls # << >> => runC.exists

\* end_run happens exactly once in a run that was created
EndRunExactlyOnce ==
    /\ endCount <= 1
    /\ (rpc = "returned" /\ runC.exists) => endCount = 1

\* a step after end_run issues no call and writes no usage event or run step
NothingAfterEndRun ==
    endCount >= 1 =>
        /\ calls' = calls
        /\ usageLog' = usageLog
        /\ Len(steps') <= Len(steps)

\* C25: within one run of council_ask or council_pipeline the run row is
\* committed with status running before the first upstream call, end_run
\* happens exactly once, and no upstream call or ledger write of the run
\* happens after end_run, also when one task of a concurrent fan-out fails
\* while its siblings are still running.
C25_RunLifecycle ==
    /\ [](RunCommittedBeforeCalls /\ EndRunExactlyOnce)
    /\ [][NothingAfterEndRun]_vars

\* the third part of C25 alone
C25_NothingAfterEndRun == [][NothingAfterEndRun]_vars

\* the UsageEvent of the attempt calls[k] is in the events e
EventOf(k, e) ==
    \E n \in 1..Len(e) :
        e[n].call_id = calls[k].call_id /\ e[n].attempt = calls[k].attempt

\* the RunStep of the attempt calls[k] is in the session
StepOf(k) ==
    \E n \in 1..Len(steps) :
        /\ steps[n].role = calls[k].site /\ steps[n].model = calls[k].model
        /\ steps[n].attempt = calls[k].attempt
        /\ steps[n].is_retry = (calls[k].attempt > 0)
        /\ ~steps[n].cache_hit

\* the attempts of the logical call a task has returned from
ReturnedAttempts ==
    {k \in 1..Len(calls) :
        \E t \in TaskIds : /\ tasks[t].pc = "done"
                            /\ tasks[t].call_id # 0
                            /\ tasks[t].call_id = calls[k].call_id}

\* C26: the UsageEvent of attempt N is persisted before the budget check of
\* attempt N runs; the budget check runs after attempt 0 and again after
\* attempt 1; the RunStep of attempt N is persisted before the call returns
\* to its caller.
C26_AttemptOrder ==
    /\ [][\A k \in 1..Len(calls) :
            (calls'[k].checked /\ ~calls[k].checked) => EventOf(k, usage)]_vars
    /\ [](\A k \in 1..Len(calls) :
            /\ calls[k].checked => EventOf(k, usageLog)
            /\ calls[k].attempt > 0 =>
                  \E j \in 1..(k - 1) :
                      /\ calls[j].call_id = calls[k].call_id
                      /\ calls[j].attempt = calls[k].attempt - 1
                      /\ calls[j].checked)
    /\ [](\A k \in ReturnedAttempts :
            calls[k].checked /\ EventOf(k, usage) /\ StepOf(k))

\* a judge or the leader has returned from a call of two attempts, under a
\* budget
C26_Witness ==
    \E k \in ReturnedAttempts :
        /\ calls[k].attempt = 1
        /\ budget.present
        /\ calls[k].site \in {"stage2", "leader"}
        /\ StepOf(k)

\* the tasks between the first and the last ledger operation of an attempt:
\* the usage event is written, the run step or the budget check is to come
MidLedgerSequence == {i \in TaskIds : tasks[i].pc \in {"check", "step", "pcheck"}}

\* C27: the ledger writes of concurrently running stage tasks never
\* interleave on the shared session: the record-usage, add-run-step and
\* budget-check sequence of a task runs under a per-runner lock, in the
\* council runner as in the pipeline runner, so no second task is inside its
\* sequence, and no usage event is written, while a task is inside its own.
C27_LedgerSerialized ==
    /\ [](Cardinality(MidLedgerSequence) <= 1)
    /\ [][\A i \in MidLedgerSequence :
            usage' # usage => tasks'[i] # tasks[i]]_vars

\* the pipeline runner keeps it: a role inside its sequence holds the lock
C27_PipelineSerialized ==
    \A i \in MidLedgerSequence : tasks[i].site \in PipelineSites => dbLock = i

\* the attempts after which _call_json_role returned None: the retry of a
\* pipeline role has returned and its text was no valid JSON of the schema
RoleGaveUp ==
    {k \in 1..Len(calls) :
        /\ calls[k].site \in PipelineSites
        /\ calls[k].attempt = 1 /\ calls[k].returned /\ calls[k].verr}

\* C28: invalid JSON after the single retry from the leader, the implementer
\* (first output or revision) or the gate ends the run with gate_verdict FAIL,
\* invalid_json:<role> in errors, final_codex_prompt null and no later model
\* call; from reviewer, security or test_writer it only adds
\* invalid_json:<role> and sets degraded, and the pipeline goes on to the
\* implementer.
C28_InvalidJson ==
    \A k \in RoleGaveUp :
        /\ calls[k].site \in {"leader", "implementer", "gate"} => k = Len(calls)
        /\ ret.by = "handler" =>
              /\ Has(ret.errors, Err("invalid_json", calls[k].site))
              /\ ret.degraded
              /\ IF calls[k].site \in {"leader", "implementer", "gate"}
                 THEN ret.gate_verdict = "FAIL" /\ pl.prompt = None /\ pl.verdict = "FAIL"
                 ELSE \E j \in (k + 1)..Len(calls) : calls[j].site = "implementer"

\* the revision of the implementer gave up after a gate FAIL: the run has
\* returned FAIL and the revision's retry is the last call
C28_Witness ==
    /\ ret.by = "handler" /\ ret.gate_verdict = "FAIL"
    /\ Has(ret.errors, Err("invalid_json", "implementer"))
    /\ Len(calls) \in RoleGaveUp
    /\ calls[Len(calls)].site = "implementer"
    /\ \E j \in 1..Len(calls) : calls[j].site = "gate"

\* the reviewer gave up and the pipeline went on to a PASS
C28_WitnessSoft ==
    /\ ret.by = "handler" /\ ret.gate_verdict = "PASS" /\ ret.degraded
    /\ ret.errors = <<Err("invalid_json", "reviewer")>>

\* the first attempts of the calls made in the role of the implementer
ImplementerRequests ==
    {k \in 1..Len(calls) : calls[k].site = "implementer" /\ calls[k].attempt = 0}

\* those after the first: the revisions
Revisions == {k \in ImplementerRequests : \E j \in ImplementerRequests : j < k}

\* C29: the first implementer output is requested from the implementer
\* model; every later one (a revision after a gate FAIL) is requested from the
\* leader model and recorded with agent_role implementer; a revision is
\* requested only after a valid gate FAIL in an iteration before the last.
C29_RevisionByLeader ==
    /\ \A k \in ImplementerRequests \ Revisions : calls[k].model = IMPLEMENTER_MODEL
    /\ \A k \in Revisions :
          /\ calls[k].model = chairman_model
          /\ calls[k - 1].site = "gate" /\ calls[k - 1].returned /\ ~calls[k - 1].verr
          /\ calls[k].checked =>
                \E n \in 1..Len(steps) :
                    /\ steps[n].role = "implementer" /\ steps[n].model = chairman_model
                    /\ steps[n].attempt = 0
    /\ Cardinality(Revisions) <= maxIter - 1
    /\ hpc = "revise_wait" => pl.gate = "FAIL" /\ idx < maxIter - 1
    /\ \A n \in 1..Len(steps) :
          steps[n].role = "implementer" =>
              steps[n].model \in {IMPLEMENTER_MODEL, chairman_model}

\* two revisions by the leader after the implementer's first output
C29_Witness ==
    /\ Cardinality(Revisions) = 2
    /\ \A k \in Revisions : calls[k].checked
    /\ ret.by = "handler"

CallsOf(role) == {k \in 1..Len(calls) : calls[k].site = role}

\* a reviewer call and a security call are both in flight
ReviewConcurrent ==
    \E i, j \in TaskIds :
        /\ tasks[i].site = "reviewer" /\ tasks[i].pc \notin {"free", "done"}
        /\ tasks[j].site = "security" /\ tasks[j].pc \notin {"free", "done"}

\* the run went on after a valid scope contract of the leader
PastLeader == pl.agents # {}

\* C30: reviewer and security are called only when listed in
\* scope.agents_to_invoke, the test_writer only when listed and tests are
\* needed (tests_policy.required, reviewer.tests_recommended or
\* security.tests_required); implementer and gate are called whatever the list
\* says; reviewer and security run concurrently only when both are listed and
\* no budget is set, otherwise the reviewer call completes before the security
\* call starts.
C30_AgentsToInvoke ==
    /\ \A role \in {"reviewer", "security", "test_writer"} :
          CallsOf(role) # {} =>
              \E n \in 1..Len(LeaderContracts) :
                  /\ role \in LeaderContracts[n].agents
                  /\ pl.agents = LeaderContracts[n].agents \cup {"implementer", "gate"}
                  /\ pl.tests = LeaderContracts[n].tests
    /\ CallsOf("test_writer") # {} =>
          pl.tests \/ pl.reviewer = "tests" \/ pl.security = "tests"
    /\ PastLeader /\ ret.by = "handler" =>
          /\ CallsOf("implementer") # {}
          /\ CallsOf("gate") # {} \/ pl.gate = "deterministic" \/ pl.implementer = "none"
    /\ PastLeader => {"implementer", "gate"} \subseteq pl.agents
    /\ ReviewConcurrent =>
          {"reviewer", "security"} \subseteq pl.agents /\ ~budget.present
    /\ budget.present \/ ~({"reviewer", "security"} \subseteq pl.agents) =>
          \A k \in CallsOf("security") :
              \A j \in CallsOf("reviewer") : j < k /\ calls[j].checked

\* neither listed the implementer or the gate, yet both were called; the
\* reviewer asked for tests and the listed test_writer was called
C30_Witness ==
    /\ ret.by = "handler"
    /\ "security" \notin pl.agents /\ ~pl.tests /\ pl.reviewer = "tests"
    /\ CallsOf("reviewer") # {} /\ CallsOf("test_writer") # {}
    /\ CallsOf("implementer") # {} /\ CallsOf("gate") # {}

\* both listed, no budget: the two calls are in flight together
C30_WitnessConcurrent ==
    /\ ReviewConcurrent /\ ~budget.present
    /\ \E i, j \in TaskIds : tasks[i].pc = "inflight" /\ tasks[j].pc = "inflight" /\ i # j

\* both listed under a budget: security is called after the reviewer is done
C30_WitnessSequential ==
    /\ budget.present /\ {"reviewer", "security"} \subseteq pl.agents
    /\ CallsOf("reviewer") # {} /\ CallsOf("security") # {}

\* the stage-1 call of council model n came back without usable content
Stage1NoContent(n) ==
    \E k \in CallsOf("stage1") :
        calls[k].model = council_models[n] /\ calls[k].returned /\ calls[k].fault

NoUsableStage1 == \A n \in 1..NumCouncil : Stage1NoContent(n)

\* the handler returned from its try block, not from `except`
ReturnedNormally == ret.by = "handler" /\ endCount = 1 /\ ~Has(ret.errors, Err("budget_exceeded", ""))

C32_WitnessPartial ==
    /\ Stage1NoContent(1) /\ ~Stage1NoContent(2)
    /\ CallsOf("stage2") # {} /\ ret.by = "handler"

\* the latest upstream attempt made in a role
LastCallOf(role) == CHOOSE k \in CallsOf(role) : \A j \in CallsOf(role) : j <= k

\* the gate model replies with a valid PASS, and the runner takes it
GatePasses ==
    /\ pl'.gate = "PASS" /\ pl.gate # "PASS"
    => /\ hpc = "gate_wait" /\ tasks[1].site = "gate"
       /\ tasks[1].res = "valid" /\ tasks[1].data = GatePass
       /\ tasks[1].ci = LastCallOf("gate")
       /\ pl'.prompt = pl.impl

\* the gate model is asked about an implementer output
GateAsked ==
    /\ hpc' = "gate" /\ hpc # "gate"
    => /\ tasks[1].site = "implementer" /\ tasks[1].res = "valid"
       /\ pl.paths => tasks[1].data = InScope
       /\ tasks[1].ci = LastCallOf("implementer")
       /\ pl'.impl = tasks[1].lc

\* C35: the pipeline returns gate_verdict PASS only when the most recent
\* gate-model reply was a valid PASS given for an implementer output that
\* passed the scope-path check; final_codex_prompt is non-null only together
\* with PASS, and then it is that of the latest implementer output.
C35_PassOnlyByGate ==
    /\ [](ret.gate_verdict = "PASS" =>
            /\ ret.by = "handler" /\ tool = "pipeline"
            /\ CallsOf("gate") # {} /\ pl.gate = "PASS"
            /\ LET g == LastCallOf("gate")
                   i == LastCallOf("implementer")
               IN /\ calls[g].returned /\ ~calls[g].verr /\ calls[g].checked
                  /\ i < g
                  /\ calls[i].returned /\ ~calls[i].verr
                  /\ ret.final_codex_prompt = calls[i].lc
            /\ ~Has(ret.errors, Err("scope_violation", "")))
    /\ [](ret.final_codex_prompt # None => ret.gate_verdict = "PASS")
    /\ [][GatePasses /\ GateAsked]_vars

\* PASS for the revision, after the gate failed the first implementer output
C35_Witness ==
    /\ ret.gate_verdict = "PASS"
    /\ Cardinality(Revisions) = 1
    /\ ret.final_codex_prompt = calls[LastCallOf("implementer")].lc
    /\ pl.paths

\* the position of model mo in the list
PositionIn(list, mo) == CHOOSE i \in 1..Len(list) : list[i] = mo

\* the models of seq are distinct members of list, in the order of list
InOrderOf(seq, list) ==
    /\ \A i \in 1..Len(seq) : \E n \in 1..Len(list) : list[n] = seq[i]
    /\ \A i, j \in 1..Len(seq) :
          i < j => PositionIn(list, seq[i]) < PositionIn(list, seq[j])

\* the models of stage2_results
JudgesOf(results) == [i \in 1..Len(results) |-> results[i].model]

\* the stage-1 call of the model returned usable content
Stage1Content(mo) ==
    \E k \in CallsOf("stage1") : calls[k].model = mo /\ calls[k].returned /\ ~calls[k].fault

\* the judge returned a dict: attempt 0 had content that parsed, or it was
\* asked again
Stage2Judged(mo) ==
    \E k \in CallsOf("stage2") :
        /\ calls[k].model = mo /\ calls[k].attempt = 0 /\ calls[k].returned
        /\ \/ ~calls[k].verr
           \/ \E j \in CallsOf("stage2") : calls[j].lc = calls[k].lc /\ calls[j].attempt = 1

Stage1Over == hpc \in {"stage2", "stage2_wait", "stage3", "stage3_wait"}
Stage2Over == hpc \in {"stage3", "stage3_wait"}

\* the run steps of stage sg, as indices into steps
StepsOf(sg) == {n \in 1..Len(steps) : steps[n].role = sg}

\* C36: stage1_results lists the answers in the order of the configured
\* council models and stage2_results the judgements in the order of the judge
\* models, whatever order the concurrent calls complete in; the labels
\* Response A, B, ... (the positions in stage1_results) and label_to_model do
\* not depend on timing.
C36_ResultOrder ==
    /\ InOrderOf(s1, council_models)
    /\ InOrderOf(JudgesOf(s2), judges)
    /\ Stage1Over => s1 = SelectSeq(council_models, Stage1Content)
    /\ Stage2Over => JudgesOf(s2) = SelectSeq(judges, Stage2Judged)
    /\ \A k \in CallsOf("stage2") : Stage1Over \/ s1 = SelectSeq(council_models, Stage1Content)

\* the second model completed first in both stages, yet it comes second
C36_Witness ==
    /\ ~budget.present /\ Stage2Over
    /\ s1 = council_models /\ JudgesOf(s2) = judges /\ Len(judges) = 2
    /\ \E a, b \in StepsOf("stage1") :
          a < b /\ steps[a].model = council_models[2] /\ steps[b].model = council_models[1]
    /\ \E a, b \in StepsOf("stage2") :
          a < b /\ steps[a].model = judges[2] /\ steps[b].model = judges[1]

\* attempt 0 of a judge came back with ok=false or without content
TransportFailure(t) ==
    t.site = "stage2" /\ t.attempt = 0 /\ t.res \in {"fail", "nocontent"}

\* _judge after the run step of such an attempt: no retry, None is returned
NoRetryOfTransportFailure ==
    \A i \in TaskIds :
        /\ TransportFailure(tasks[i]) /\ tasks[i].pc = "step"
        /\ tasks'[i] # tasks[i] /\ hpc' = hpc
        => /\ tasks'[i].pc = "done" /\ tasks'[i].out = "none"
           /\ calls' = calls

\* stage2 and the handler after the judges: such a judge is in no result and
\* in no error
TransportFailureLeftOut ==
    \A i \in TaskIds :
        /\ hpc = "stage2_wait" /\ hpc' \in {"stage2", "stage3"}
        /\ tasks[i].pc = "done" /\ TransportFailure(tasks[i])
        => /\ Len(s2') = Len(s2) + Cardinality({j \in ActiveTasks : tasks[j].out # "none"})
           /\ \A n \in Len(s2) + 1..Len(s2') : s2'[n].model # tasks[i].model
           /\ \A n \in 1..Len(errors') : errors'[n][2] # tasks[i].model

\* the judge's attempt 0 failed and no attempt 1 followed
FailedUnretried(k) ==
    /\ calls[k].site = "stage2" /\ calls[k].attempt = 0
    /\ calls[k].returned /\ calls[k].verr
    /\ ~\E j \in CallsOf("stage2") : calls[j].lc = calls[k].lc /\ calls[j].attempt = 1

\* C38: a stage-2 judge whose attempt 0 fails at transport level (ok=false or
\* null content) is not retried, is left out of stage2_results and adds no
\* entry to errors, so that a council.ask run with such a judge can still
\* return errors=[] and end succeeded.
C38_JudgeTransportFailure ==
    /\ [][NoRetryOfTransportFailure /\ TransportFailureLeftOut]_vars
    /\ [](ret.by = "handler" /\ CallsOf("stage3") # {} =>
            \A k \in CallsOf("stage2") :
                FailedUnretried(k) =>
                    /\ ~Has(JudgesOf(s2), calls[k].model)
                    /\ \A n \in 1..Len(ret.errors) : ret.errors[n][2] # calls[k].model)

\* one of two judges failed at transport level; the run returned errors=[]
\* and ended succeeded
C38_Witness ==
    /\ ret.by = "handler" /\ ret.errors = << >> /\ ~ret.degraded
    /\ run.status = "succeeded"
    /\ \E k \in CallsOf("stage2") : FailedUnretried(k) /\ calls[k].fault
    /\ Len(s2) = 1 /\ Len(judges) = 2

\* a run step of the model and attempt of the usage event e
StepOfEvent(e) ==
    \E n \in 1..Len(steps) :
        /\ steps[n].model = e.model /\ steps[n].attempt = e.attempt
        /\ ~steps[n].cache_hit

\* the attempt whose budget check aborted the run
AbortingAttempt ==
    /\ budgetFailedAt # 0 /\ usage # << >>
    /\ ret.by = "handler" /\ run.status = "failed"

\* C39: every UsageEvent of a run that stems from an upstream call has a
\* RunStep of the same run with the same model and attempt, also for the
\* attempt whose budget check aborted the run, in the council runner as in
\* the pipeline runner.
C39_EventHasStep ==
    ret.by = "handler" => \A n \in 1..Len(usage) : StepOfEvent(usage[n])

\* the pipeline runner alone: the step is added under the lock that holds
\* the event, before the budget check
C39_PipelineEventHasStep ==
    tool = "pipeline" => \A n \in 1..Len(usage) : StepOfEvent(usage[n])

\* a pipeline run aborted by the budget check; its last event has its step
C39_WitnessPipeline ==
    /\ tool = "pipeline" /\ AbortingAttempt
    /\ StepOfEvent(usage[Len(usage)])

\* a council.ask run aborted by the budget check of an attempt whose event
\* has no step
C39_WitnessCouncil ==
    /\ tool = "ask" /\ AbortingAttempt
    /\ ~StepOfEvent(usage[Len(usage)])

\* services/quota.py monthly_tokens_used over the usage rows of the key that
\* the session shows: coalesce(total_tokens, prompt + completion), summed; the
\* rows of the run are of the current month
monthly_tokens_used(rows) == SumTokens(rows)

\* the runtime has rolled back after a timeout, a cancellation or an exception
\* that left the handler
RolledBack ==
    /\ rpc = "returned" /\ ret.by = "runtime"
    /\ cause \in {"timeout", "cancelled", "exception"}

\* the handler commits: the committed run, messages or cache change while it
\* runs
HandlerCommits ==
    /\ hpc' \notin {"returned", "stopped"}
    /\ (runC' # runC \/ cacheC' # cacheC \/ msgsC' # msgsC)

C40_WitnessPipeline ==
    /\ RolledBack /\ cause = "cancelled" /\ tool = "pipeline" /\ runC.exists
    /\ monthly_tokens_used(usageLog) > 0
    /\ usage = << >> /\ steps = << >>

\* C2: once end_run has set a run to succeeded or failed, a later end_run call
\* on the same run leaves status, ended_at and latency_ms unchanged.
C2_EndRunOneShot ==
    [][(endCount' # endCount /\ run.status \in {"succeeded", "failed"}) => run' = run]_vars

\* C3 as stated: when the handler returns after a failed budget check the
\* envelope's errors are exactly ["budget_exceeded"].
C3_ErrorsOnlyBudget ==
    (ret.by = "handler" /\ budgetFailedAt # -1) => ret.errors = <<Err("budget_exceeded", "")>>

\* C3: once the budget check has failed no further upstream call is issued;
\* when the handler then returns, the run is failed, the envelope is degraded
\* with final_answer "" (council.ask) or gate_verdict FAIL (council.pipeline),
\* and "budget_exceeded" is the last entry of errors, after the per-model
\* failures council.ask has already collected (the only entry for the pipeline).
C3_BudgetAbort ==
    /\ budgetFailedAt # -1 => Len(calls) = budgetFailedAt
    /\ (ret.by = "handler" /\ budgetFailedAt # -1) =>
          /\ run.status = "failed"
          /\ runC.status = "failed"
          /\ ret.degraded
          /\ ret.final_answer = ""
          /\ tool = "pipeline" => ret.gate_verdict = "FAIL"
          /\ ret.errors # << >>
          /\ ret.errors[Len(ret.errors)] = Err("budget_exceeded", "")
          /\ \A k \in 1..(Len(ret.errors) - 1) : ret.errors[k] # Err("budget_exceeded", "")
          /\ tool = "pipeline" => Len(ret.errors) = 1

C3_Witness ==
    /\ ret.by = "handler"
    /\ budgetFailedAt # -1
    /\ Len(ret.errors) >= 2

\* C4: with a budget set, an upstream call is issued only after every earlier
\* call of the run has had its UsageEvent recorded and its budget check passed.
C4_SequentialUnderBudget ==
    budget.present =>
        \A k \in 1..(Len(calls) - 1) :
            /\ calls[k].returned
            /\ calls[k].checked
            /\ EventsOf(usageLog, calls[k].call_id, calls[k].attempt) # {}

C4_Witness ==
    /\ budget.present
    /\ \E k \in 2..Len(calls) :
          /\ calls[k].lc # calls[k - 1].lc
          /\ \/ calls[k].site = "stage1" /\ calls[k - 1].site = "stage1"
             \/ calls[k].site = "security" /\ calls[k - 1].site = "reviewer"

\* C6: a JSON-role call makes attempt 0 and, only after attempt 0 returned an
\* output that did not validate, attempt 1 with the same call_id; never an
\* attempt 2; a RunStep has is_retry exactly when its attempt is above 0.
C6_RetryOnce ==
    /\ \A k \in 1..Len(calls) :
          calls[k].site \in JsonRoleSites =>
              /\ calls[k].attempt \in {0, 1}
              /\ Cardinality({j \in 1..Len(calls) : calls[j].lc = calls[k].lc}) <= 2
              /\ calls[k].attempt = 1 =>
                    \E j \in 1..(k - 1) :
                        /\ calls[j].lc = calls[k].lc
                        /\ calls[j].call_id = calls[k].call_id
                        /\ calls[j].attempt = 0
                        /\ calls[j].returned
                        /\ calls[j].verr
    /\ \A k \in 1..Len(steps) : steps[k].is_retry <=> steps[k].attempt > 0

C6_Witness ==
    /\ \E k \in 1..Len(calls) : calls[k].attempt = 1 /\ calls[k].returned
    /\ \E k \in 1..Len(steps) : steps[k].is_retry

\* C7: every upstream attempt whose result reached the runner has exactly one
\* UsageEvent, no two UsageEvents share (call_id, attempt), the attempts of one
\* logical call share its call_id and distinct logical calls have distinct
\* call_ids; when the handler returns, every attempt of the run has its event.
C7_OneEventPerAttempt ==
    /\ \A k \in 1..Len(calls) :
          /\ Cardinality(EventsOf(usageLog, calls[k].call_id, calls[k].attempt)) <= 1
          /\ calls[k].checked =>
                Cardinality(EventsOf(usageLog, calls[k].call_id, calls[k].attempt)) = 1
          /\ ret.by = "handler" =>
                Cardinality(EventsOf(usage, calls[k].call_id, calls[k].attempt)) = 1
    /\ \A j, k \in 1..Len(calls) :
          /\ (calls[j].lc = calls[k].lc) <=> (calls[j].call_id = calls[k].call_id)
          /\ (j # k /\ calls[j].call_id = calls[k].call_id) => calls[j].attempt # calls[k].attempt
    /\ \A k \in 1..Len(usageLog) :
          \E j \in 1..Len(calls) :
              calls[j].call_id = usageLog[k].call_id /\ calls[j].attempt = usageLog[k].attempt

C7_Witness ==
    /\ ret.by = "handler"
    /\ \E k \in 1..Len(calls) : calls[k].fault
    /\ \E k \in 1..Len(calls) : calls[k].attempt = 1
    /\ \E j, k \in 1..Len(calls) : calls[j].lc # calls[k].lc

\* C8: a stage-1 answer is cached only from a successful call with content and
\* a stage-2 judgement only when it is valid, after at most one retry; a failed
\* call or an invalid judgement writes nothing to the cache.
C8_CacheOnlyValid ==
    /\ \A k \in 1..Len(cacheWrites) :
          /\ cacheWrites[k].site \in {"stage1", "stage2"}
          /\ cacheWrites[k].site = "stage1" => cacheWrites[k].res = "ok"
          /\ cacheWrites[k].site = "stage2" =>
                cacheWrites[k].res = "valid" /\ cacheWrites[k].attempt \in {0, 1}
    /\ \A key \in cache :
          \/ key = Stage1Key(council_models[1])
          \/ \E k \in 1..Len(cacheWrites) : cacheWrites[k].key = key

C8_Witness ==
    /\ \E k \in 1..Len(cacheWrites) : cacheWrites[k].site = "stage1"
    /\ \E k \in 1..Len(calls) :
          /\ calls[k].site = "stage1"
          /\ calls[k].fault
          /\ calls[k].checked
          /\ Stage1Key(calls[k].model) \notin cache
    /\ hpc = "stage2"

====
